---- MODULE Spec2Model ----
(***************************************************************************)
(* Timesheet-to-task reconciliation pipeline of the GPP TFS tracker:       *)
(* narrative identifier extraction, activity filter, timesheet grouping,   *)
(* metadata merge, import upsert, bell-curve estimation, low-estimate      *)
(* repair and variance-based quality scoring.                              *)
(*                                                                         *)
(* Hours are JavaScript Numbers in the program.  The model keeps them as   *)
(* exact fixed-point integers counted in tenths of an hour (Tenth units    *)
(* per hour), so 4.5 h is 45; statistics that halve values are computed in *)
(* exact rational arithmetic over a common denominator.                    *)
(***************************************************************************)
EXTENDS Integers, Sequences, FiniteSets, TLC

VARIABLES
    narrative,   \* ExtractSpec: the narrative string handed to extractTfsId
    extracted,   \* ExtractSpec: what extractTfsId returned for it
    nFragments,  \* ExtractSpec: number of fragments the narrative was built from
    sheet3e,     \* ParseSpec: rows of the "3e" sheet
    sheetScore,  \* ParseSpec: rows of the "scorebyTFS" sheet
    drafts,      \* ParseSpec: parseTimesheetData() of sheet3e
    merged,      \* ParseSpec: getMergedData() of both sheets
    store,       \* Spec: the TfsTask collection, a function tfsId -> document
    lastOp,      \* Spec: the request handled last
    lastResult,  \* Spec: what the last request carried and reported
    nImports,    \* Spec: number of imports handled so far
    nEdits,      \* Spec: number of PUT requests handled so far
    inFlight     \* RaceSpec: the imports under way, request -> its position

vars == <<narrative, extracted, nFragments, sheet3e, sheetScore, drafts, merged,
          store, lastOp, lastResult, nImports, nEdits, inFlight>>

extractVars == <<narrative, extracted, nFragments>>
parseVars == <<sheet3e, sheetScore, drafts, merged>>
storeVars == <<store, lastOp, lastResult, nImports, nEdits, inFlight>>

-----------------------------------------------------------------------------
(* Values standing for JavaScript null / undefined.                        *)

\* null for estimated, quality, WorkHrs, originalTfsId (never a legal value there)
NULL == 0 - 1

\* extractTfsId's null, and a missing (or zero, equally falsy) scorebyTFS ID
NoId == 0

\* fixed-point units per hour
Tenth == 10

-----------------------------------------------------------------------------
(* Characters and strings.                                                 *)

UpperChars == "ABCDEFGHIJKLMNOPQRSTUVWXYZ"
LowerChars == "abcdefghijklmnopqrstuvwxyz"
DigitChars == "0123456789"

\* U+2013 EN DASH, written with an ASCII stand-in that no other rule reads
EnDash == "~"

Ch(s, i) == SubSeq(s, i, i)

UpperSet == {Ch(UpperChars, i) : i \in 1..26}
LowerSet == {Ch(LowerChars, i) : i \in 1..26}
DigitSet == {Ch(DigitChars, i) : i \in 1..10}

IsDigit(c) == c \in DigitSet
IsUpper(c) == c \in UpperSet
IsLower(c) == c \in LowerSet
IsLetter(c) == IsUpper(c) \/ IsLower(c)
IsSpace(c) == c \in {" ", "\t"}
IsWord(c) == IsLetter(c) \/ IsDigit(c) \/ c = "_"

LowerOfUpper == [c \in UpperSet |-> Ch(LowerChars, CHOOSE i \in 1..26 : c = Ch(UpperChars, i))]

LowerChar(c) == IF IsUpper(c) THEN LowerOfUpper[c] ELSE c

RECURSIVE toLowerCase(_)
toLowerCase(s) ==
    IF s = "" THEN ""
    ELSE LowerChar(Ch(s, 1)) \o toLowerCase(SubSeq(s, 2, Len(s)))

includes(s, sub) ==
    \E i \in 1..(Len(s) - Len(sub) + 1) : SubSeq(s, i, i + Len(sub) - 1) = sub

ValueOfDigit == [c \in DigitSet |-> (CHOOSE i \in 1..10 : c = Ch(DigitChars, i)) - 1]

DigitVal(c) == ValueOfDigit[c]

RECURSIVE StripZeros(_)
StripZeros(s) ==
    IF Len(s) > 1 /\ Ch(s, 1) = "0" THEN StripZeros(SubSeq(s, 2, Len(s))) ELSE s

RECURSIVE DigitsValue(_)
DigitsValue(s) ==
    IF s = "" THEN 0
    ELSE DigitsValue(SubSeq(s, 1, Len(s) - 1)) * 10 + DigitVal(Ch(s, Len(s)))

\* parseInt(digits, 10).  A run of more than six significant digits is
\* returned as 1000000: it is only ever compared with the range 10000..99999.
parseInt(s) ==
    LET t == StripZeros(s)
    IN  IF Len(t) > 6 THEN 1000000 ELSE DigitsValue(t)

-----------------------------------------------------------------------------
(* The regular expressions of extractTfsId.  Every pattern has one capture  *)
(* group; String.prototype.match returns the leftmost match, so PatK(s) is  *)
(* the capture of the leftmost match, or "" when the pattern does not match.*)

RECURSIVE SkipSpaces(_, _)
SkipSpaces(s, i) ==
    IF i <= Len(s) /\ IsSpace(Ch(s, i)) THEN SkipSpaces(s, i + 1) ELSE i

RECURSIVE SkipDigits(_, _)
SkipDigits(s, i) ==
    IF i <= Len(s) /\ IsDigit(Ch(s, i)) THEN SkipDigits(s, i + 1) ELSE i

\* the literal lit (lower case), matched case-insensitively at position p
LitAt(s, p, lit) ==
    /\ p + Len(lit) - 1 <= Len(s)
    /\ toLowerCase(SubSeq(s, p, p + Len(lit) - 1)) = lit

\* exactly five digits at position p
FiveAt(s, p) ==
    /\ p >= 1
    /\ p + 4 <= Len(s)
    /\ \A k \in p..(p + 4) : IsDigit(Ch(s, k))

\* (?:\s|[A-Za-z]|$) at position p
CaretTail(s, p) ==
    \/ p = Len(s) + 1
    \/ p <= Len(s) /\ (IsSpace(Ch(s, p)) \/ IsLetter(Ch(s, p)))

Leftmost(S) == CHOOSE p \in S : \A q \in S : p <= q

\* /TFS\s*Task\s*(\d+)/i
TfsTaskDigits(s, p) ==
    LET q == SkipSpaces(s, p + 3)
        r == SkipSpaces(s, q + 4)
    IN  IF LitAt(s, p, "tfs") /\ LitAt(s, q, "task") /\ SkipDigits(s, r) > r
        THEN SubSeq(s, r, SkipDigits(s, r) - 1)
        ELSE ""

Pat1(s) ==
    LET M == {p \in 1..Len(s) : TfsTaskDigits(s, p) # ""}
    IN  IF M = {} THEN "" ELSE TfsTaskDigits(s, Leftmost(M))

\* /TFS\s+(\d+)/i and /Task\s+(\d+)/i
WordSpaceDigits(s, p, lit) ==
    LET q == SkipSpaces(s, p + Len(lit))
    IN  IF LitAt(s, p, lit) /\ q > p + Len(lit) /\ SkipDigits(s, q) > q
        THEN SubSeq(s, q, SkipDigits(s, q) - 1)
        ELSE ""

Pat2(s) ==
    LET M == {p \in 1..Len(s) : WordSpaceDigits(s, p, "tfs") # ""}
    IN  IF M = {} THEN "" ELSE WordSpaceDigits(s, Leftmost(M), "tfs")

Pat3(s) ==
    LET M == {p \in 1..Len(s) : WordSpaceDigits(s, p, "task") # ""}
    IN  IF M = {} THEN "" ELSE WordSpaceDigits(s, Leftmost(M), "task")

\* /^(\d{5})\s*[-\u2013]/
Pat4(s) ==
    LET q == SkipSpaces(s, 6)
    IN  IF FiveAt(s, 1) /\ q <= Len(s) /\ Ch(s, q) \in {"-", EnDash}
        THEN SubSeq(s, 1, 5)
        ELSE ""

\* /\^\s*(\d{5})(?:\s|[A-Za-z]|$)/ with the caret at position p
CaretDigits(s, p) ==
    LET q == SkipSpaces(s, p + 1)
    IN  IF p <= Len(s) /\ Ch(s, p) = "^" /\ FiveAt(s, q) /\ CaretTail(s, q + 5)
        THEN SubSeq(s, q, q + 4)
        ELSE ""

Pat5(s) ==
    LET M == {p \in 1..Len(s) : CaretDigits(s, p) # ""}
    IN  IF M = {} THEN "" ELSE CaretDigits(s, Leftmost(M))

\* />\s*\^\s*(\d{5})(?:\s|[A-Za-z]|$)/
TagCaretDigits(s, p) ==
    IF Ch(s, p) = ">" THEN CaretDigits(s, SkipSpaces(s, p + 1)) ELSE ""

Pat6(s) ==
    LET M == {p \in 1..Len(s) : TagCaretDigits(s, p) # ""}
    IN  IF M = {} THEN "" ELSE TagCaretDigits(s, Leftmost(M))

\* /(?:^|[>\s])(\d{5})\s+\w/ with the digits at position d
StandaloneDigits(s, d) ==
    LET q == SkipSpaces(s, d + 5)
    IN  IF /\ (d = 1 \/ Ch(s, d - 1) = ">" \/ IsSpace(Ch(s, d - 1)))
           /\ FiveAt(s, d)
           /\ q > d + 5
           /\ q <= Len(s)
           /\ IsWord(Ch(s, q))
        THEN SubSeq(s, d, d + 4)
        ELSE ""

Pat7(s) ==
    LET M == {d \in 1..Len(s) : StandaloneDigits(s, d) # ""}
    IN  IF M = {} THEN "" ELSE StandaloneDigits(s, Leftmost(M))

\* the patterns array, as the capture each pattern yields on s
patterns(s) == <<Pat1(s), Pat2(s), Pat3(s), Pat4(s), Pat5(s), Pat6(s), Pat7(s)>>

MinTfsId == 10000
MaxTfsId == 99999

\* variant: any positive number captured is taken as an identifier
InRangeAnyPositive(id) == id > 0

InRange(id) == id >= MinTfsId /\ id <= MaxTfsId

\* variant: the first pattern that matches ends the search, in range or not
RECURSIVE ExtractFromFirstMatchOnly(_, _)
ExtractFromFirstMatchOnly(caps, k) ==
    IF k > Len(caps) THEN NoId
    ELSE IF caps[k] # ""
         THEN (IF InRange(parseInt(caps[k])) THEN parseInt(caps[k]) ELSE NoId)
    ELSE ExtractFromFirstMatchOnly(caps, k + 1)

RECURSIVE ExtractFrom(_, _)
ExtractFrom(caps, k) ==
    IF k > Len(caps) THEN NoId
    ELSE IF caps[k] # "" /\ InRange(parseInt(caps[k])) THEN parseInt(caps[k])
    ELSE ExtractFrom(caps, k + 1)

extractTfsId(s) == IF s = "" THEN NoId ELSE ExtractFrom(patterns(s), 1)

-----------------------------------------------------------------------------
(* The activity filter (class ExcelParser).                                 *)

SKIP_ACTIVITIES ==
    <<"PTO/Vacation", "Holiday", "Death in Family", "Leave Without Pay",
      "Administrative Shutdown">>

\* skip.toLowerCase() for each entry of SKIP_ACTIVITIES
SkipLowered == [i \in 1..Len(SKIP_ACTIVITIES) |-> toLowerCase(SKIP_ACTIVITIES[i])]

\* variant: desc.includes(skip) on the cell as written, without toLowerCase
shouldSkipActivityAsWritten(activityCodeDesc) ==
    IF activityCodeDesc = "" THEN FALSE
    ELSE \E i \in 1..Len(SKIP_ACTIVITIES) : includes(activityCodeDesc, SKIP_ACTIVITIES[i])

\* an absent ActivityCodeDesc is the empty string, falsy like undefined
shouldSkipActivity(activityCodeDesc) ==
    IF activityCodeDesc = "" THEN FALSE
    ELSE LET desc == toLowerCase(activityCodeDesc)
         IN  \E i \in 1..Len(SKIP_ACTIVITIES) : includes(desc, SkipLowered[i])

-----------------------------------------------------------------------------
(* Spreadsheet rows.                                                       *)

Row(tk, first, last, date, hrs, narr, act, mno, mname) ==
    [TimekeeperNumber |-> tk, FirstName |-> first, LastName |-> last,
     WorkDate |-> date, WorkHrs |-> hrs, TimecardNarrative |-> narr,
     ActivityCodeDesc |-> act, MatterNumber |-> mno, MatterName |-> mname]

ScoreRow(id, title, est, q) ==
    [ID |-> id, Title |-> title, Estimated |-> est, Quality |-> q]

Developers ==
    {[tk |-> 1, first |-> "A", last |-> "B"], [tk |-> 2, first |-> "C", last |-> "D"]}

RowSpace ==
    {Row(d.tk, d.first, d.last, "2025-01-01", h, n, "Development", "7300", "Admin") :
        d \in Developers, h \in {25, 40}, n \in {"TFS Task 12345 - fix", "TFS Task 100 - fix"}}
    \cup
    {Row(1, "A", "B", "2025-01-02", 40, "Task 67890 done", "Development", "7301", ""),
     Row(3, "Miriah", "Pooler", "2025-01-01", 40, "TFS Task 12345 - fix", "Development", "7300", "Admin"),
     Row(1, "A", "B", "2025-01-01", 80, "TFS Task 12345 - fix", "pto/vacation", "7300", "Admin"),
     Row(2, "C", "D", "2025-01-01", 80, "Task 67890 done", "Paid HOLIDAY leave", "7300", "Admin"),
     Row(2, "C", "D", "", NULL, "TFS 12345 review", "", "", "")}

MergeRowSpace ==
    {Row(1, "A", "B", "2025-01-01", 40, "TFS Task 12345 - fix", "Development", "7300", "Admin"),
     Row(2, "C", "D", "2025-01-01", 25, "TFS Task 12345 - fix", "Development", "7300", "Admin"),
     Row(1, "A", "B", "2025-01-01", 25, "TFS Task 100 - fix", "Development", "7300", "Admin"),
     Row(1, "A", "B", "2025-01-02", 40, "Task 67890 done", "Development", "7301", "")}

AllRows == RowSpace \cup MergeRowSpace

\* extractTfsId and shouldSkipActivity, tabulated once over the cell values
\* the sheets can hold
SheetNarratives == {row.TimecardNarrative : row \in AllRows}
SheetActivities == {row.ActivityCodeDesc : row \in AllRows}
TfsIdOfNarrative == [n \in SheetNarratives |-> extractTfsId(n)]
SkipOfActivity == [a \in SheetActivities |-> shouldSkipActivity(a)]

-----------------------------------------------------------------------------
(* The timesheet grouper.                                                  *)

\* parseExcelDate(WorkDate)?.toISOString().split('T')[0]: cells hold a
\* calendar day, written here already as its date-only string; "" is no date
dateOnlyOf(workDate) == workDate

devNameOf(row) == row.FirstName \o " " \o row.LastName

\* the two guards at the top of both passes of parseTimesheetData
IsKept(row) ==
    /\ ~SkipOfActivity[row.ActivityCodeDesc]
    /\ ~(row.FirstName = "Miriah" /\ row.LastName = "Pooler")

\* first pass: tfsId -> Set of the developer names whose kept rows resolve to it
tfsDevCount(data) ==
    LET kept == {j \in 1..Len(data) : IsKept(data[j])}
        idOf == [j \in kept |-> TfsIdOfNarrative[data[j].TimecardNarrative]]
        ids  == {idOf[j] : j \in kept} \ {NoId}
    IN  [id \in ids |-> {devNameOf(data[j]) : j \in {k \in kept : idOf[k] = id}}]

\* variant: map.set(key, hrs), forgetting the hours already under key
AddHoursOverwrite(map, key, hrs) ==
    [k \in DOMAIN map \cup {key} |-> IF k = key THEN hrs ELSE map[k]]

\* map.set(key, (map.get(key) || 0) + hrs) on a name -> hours map
AddHours(map, key, hrs) ==
    IF key \in DOMAIN map
    THEN [map EXCEPT ![key] = @ + hrs]
    ELSE [k \in DOMAIN map \cup {key} |-> IF k = key THEN hrs ELSE map[k]]

\* devDates[dateOnly] = (devDates[dateOnly] || 0) + hrs, under devKey
AddDateHours(map, devKey, dateOnly, hrs) ==
    LET old == IF devKey \in DOMAIN map THEN map[devKey] ELSE <<>>
    IN  [k \in DOMAIN map \cup {devKey} |->
            IF k = devKey THEN AddHours(old, dateOnly, hrs) ELSE map[k]]

\* the entry object built from one row
EntryOf(row) ==
    [timekeeperNumber |-> row.TimekeeperNumber,
     lastName         |-> row.LastName,
     firstName        |-> row.FirstName,
     workDateOnly     |-> dateOnlyOf(row.WorkDate),
     workHrs          |-> IF row.WorkHrs = NULL THEN 0 ELSE row.WorkHrs,
     narrative        |-> row.TimecardNarrative,
     activityCodeDesc |-> row.ActivityCodeDesc]

\* variant: task.totalActualHours = entry.workHrs instead of +=
AccumulateEntryAssign(task, row) ==
    LET entry  == EntryOf(row)
        devKey == entry.firstName \o " " \o entry.lastName
    IN  [task EXCEPT
            !.title = IF task.title = "" /\ row.MatterName # ""
                      THEN row.MatterName ELSE @,
            !.timeEntries = Append(@, entry),
            !.totalActualHours = entry.workHrs,
            !.developerBreakdown = AddHours(@, devKey, entry.workHrs),
            !.developerBreakdownByDate =
                IF entry.workDateOnly # ""
                THEN AddDateHours(@, devKey, entry.workDateOnly, entry.workHrs)
                ELSE @]

\* the tail of one iteration: title back-fill, then push the entry and add
\* its hours to the total and to both breakdowns
AccumulateEntry(task, row) ==
    LET entry  == EntryOf(row)
        devKey == entry.firstName \o " " \o entry.lastName
    IN  [task EXCEPT
            !.title = IF task.title = "" /\ row.MatterName # ""
                      THEN row.MatterName ELSE @,
            !.timeEntries = Append(@, entry),
            !.totalActualHours = @ + entry.workHrs,
            !.developerBreakdown = AddHours(@, devKey, entry.workHrs),
            !.developerBreakdownByDate =
                IF entry.workDateOnly # ""
                THEN AddDateHours(@, devKey, entry.workDateOnly, entry.workHrs)
                ELSE @]

\* variant: devCount taken as 1 whatever the first pass counted
DevCountOfOne(devSets, tfsId) == 1

\* tfsDevCount.get(tfsId)?.size || 1
DevCountOf(devSets, tfsId) ==
    IF tfsId \in DOMAIN devSets /\ devSets[tfsId] # {}
    THEN Cardinality(devSets[tfsId]) ELSE 1

\* the object put into taskMap under a new key
FreshTask(taskId, originalTfsId, title, tfsIdNotEntered, row) ==
    [tfsId                    |-> taskId,
     originalTfsId            |-> originalTfsId,
     title                    |-> title,
     tfsIdNotEntered          |-> tfsIdNotEntered,
     matterNumber             |-> row.MatterNumber,
     estimated                |-> NULL,
     quality                  |-> NULL,
     timeEntries              |-> <<>>,
     totalActualHours         |-> 0,
     developerBreakdown       |-> <<>>,
     developerBreakdownByDate |-> <<>>]

\* the three branches on tfsId and devCount: the key of the row's task, the
\* task to create under it if the key is new, and generatedIdCounter after
TargetOf(row, tfsId, devCount, counter) ==
    IF tfsId # NoId /\ devCount = 1
    THEN [mapKey  |-> "tfs-" \o ToString(tfsId),
          fresh   |-> FreshTask(tfsId, NULL, "", FALSE, row),
          counter |-> counter]
    ELSE IF tfsId # NoId
    THEN [mapKey  |-> "tfs-" \o ToString(tfsId) \o "-" \o devNameOf(row),
          fresh   |-> FreshTask(counter, tfsId,
                                "[TFS " \o ToString(tfsId) \o "] - " \o devNameOf(row),
                                FALSE, row),
          counter |-> counter - 1]
    ELSE [mapKey  |-> "orphan-" \o ToString(counter),
          fresh   |-> FreshTask(counter, NULL,
                                (IF row.MatterName = "" THEN "Unknown" ELSE row.MatterName)
                                    \o " - " \o devNameOf(row)
                                    \o " (" \o dateOnlyOf(row.WorkDate) \o ")",
                                TRUE, row),
          counter |-> counter - 1]

\* taskMap.has / set / get, then the accumulation into the task
PutRow(m, row, target) ==
    IF \E i \in 1..Len(m.keys) : m.keys[i] = target.mapKey
    THEN [keys    |-> m.keys,
          tasks   |-> [i \in 1..Len(m.tasks) |->
                         IF m.keys[i] = target.mapKey
                         THEN AccumulateEntry(m.tasks[i], row) ELSE m.tasks[i]],
          counter |-> target.counter]
    ELSE [keys    |-> Append(m.keys, target.mapKey),
          tasks   |-> Append(m.tasks, AccumulateEntry(target.fresh, row)),
          counter |-> target.counter]

\* the branch of the row whose narrative resolves to tfsId
TargetFor(devSets, row, tfsId, counter) ==
    TargetOf(row, tfsId, DevCountOf(devSets, tfsId), counter)

\* one iteration of the second pass; m is [keys, tasks, counter]: the
\* insertion-ordered taskMap and generatedIdCounter
SecondPassRow(devSets, m, row) ==
    IF ~IsKept(row) THEN m
    ELSE PutRow(m, row,
                TargetFor(devSets, row, TfsIdOfNarrative[row.TimecardNarrative], m.counter))

RECURSIVE SecondPass(_, _, _)
SecondPass(data, devSets, n) ==
    IF n = 0 THEN [keys |-> <<>>, tasks |-> <<>>, counter |-> 0 - 1]
    ELSE SecondPassRow(devSets, SecondPass(data, devSets, n - 1), data[n])

\* Array.from(taskMap.values())
parseTimesheetData(data) == SecondPass(data, tfsDevCount(data), Len(data)).tasks

-----------------------------------------------------------------------------
(* The metadata merger.                                                    *)

\* parseTfsScoreData: row.X || null turns an absent or zero cell into null,
\* row.Title || '' an absent title into '', and rows with a falsy ID go
ScoreItem(row) ==
    [tfsId     |-> row.ID,
     title     |-> row.Title,
     estimated |-> IF row.Estimated = 0 THEN NULL ELSE row.Estimated,
     quality   |-> IF row.Quality = 0 THEN NULL ELSE row.Quality]

parseTfsScoreData(data) ==
    SelectSeq([i \in 1..Len(data) |-> ScoreItem(data[i])], LAMBDA item : item.tfsId # NoId)

\* new Map(scoreData.map(s => [s.tfsId, s])): a later item with the same key
\* replaces the value and keeps the key's first position
RECURSIVE ScoreMapOf(_, _)
ScoreMapOf(scoreData, n) ==
    IF n = 0 THEN <<>>
    ELSE LET m    == ScoreMapOf(scoreData, n - 1)
             item == scoreData[n]
         IN  IF \E i \in 1..Len(m) : m[i].tfsId = item.tfsId
             THEN [i \in 1..Len(m) |-> IF m[i].tfsId = item.tfsId THEN item ELSE m[i]]
             ELSE Append(m, item)

\* variant: task.title = score.title, without the || task.title fallback
MergeTaskTitleAlways(st, task) ==
    IF \E i \in 1..Len(st.scoreMap) : st.scoreMap[i].tfsId = task.tfsId
    THEN LET score == st.scoreMap[CHOOSE i \in 1..Len(st.scoreMap) :
                                      st.scoreMap[i].tfsId = task.tfsId]
         IN  [out |-> Append(st.out,
                        [task EXCEPT !.title = score.title,
                                     !.estimated = score.estimated,
                                     !.quality = score.quality]),
              scoreMap |-> SelectSeq(st.scoreMap, LAMBDA sc : sc.tfsId # task.tfsId)]
    ELSE [out |-> Append(st.out, task), scoreMap |-> st.scoreMap]

\* the body of timesheetData.map for one draft; st is [out, scoreMap]:
\* overlay the matching score on the draft and delete it from the map
MergeTask(st, task) ==
    IF \E i \in 1..Len(st.scoreMap) : st.scoreMap[i].tfsId = task.tfsId
    THEN LET score == st.scoreMap[CHOOSE i \in 1..Len(st.scoreMap) :
                                      st.scoreMap[i].tfsId = task.tfsId]
         IN  [out |-> Append(st.out,
                        [task EXCEPT !.title = IF score.title # "" THEN score.title ELSE @,
                                     !.estimated = score.estimated,
                                     !.quality = score.quality]),
              scoreMap |-> SelectSeq(st.scoreMap, LAMBDA sc : sc.tfsId # task.tfsId)]
    ELSE [out |-> Append(st.out, task), scoreMap |-> st.scoreMap]

RECURSIVE MergeLoop(_, _, _)
MergeLoop(timesheetData, scoreMap, n) ==
    IF n = 0 THEN [out |-> <<>>, scoreMap |-> scoreMap]
    ELSE MergeTask(MergeLoop(timesheetData, scoreMap, n - 1), timesheetData[n])

\* variant: the standalone task takes the sheet's hours column for its total
StandaloneTaskWithHours(score) ==
    [tfsId                    |-> score.tfsId,
     originalTfsId            |-> NULL,
     title                    |-> score.title,
     tfsIdNotEntered          |-> FALSE,
     matterNumber             |-> "",
     estimated                |-> score.estimated,
     quality                  |-> score.quality,
     timeEntries              |-> <<>>,
     totalActualHours         |-> IF score.estimated = NULL THEN 0 ELSE score.estimated,
     developerBreakdown       |-> <<>>,
     developerBreakdownByDate |-> <<>>]

\* the object pushed for a score row no draft consumed
StandaloneTask(score) ==
    [tfsId                    |-> score.tfsId,
     originalTfsId            |-> NULL,
     title                    |-> score.title,
     tfsIdNotEntered          |-> FALSE,
     matterNumber             |-> "",
     estimated                |-> score.estimated,
     quality                  |-> score.quality,
     timeEntries              |-> <<>>,
     totalActualHours         |-> 0,
     developerBreakdown       |-> <<>>,
     developerBreakdownByDate |-> <<>>]

\* Array.prototype.sort((a, b) => b.tfsId - a.tfsId): a stable sort
RECURSIVE InsertDesc(_, _)
InsertDesc(sorted, task) ==
    IF sorted = <<>> THEN <<task>>
    ELSE IF Head(sorted).tfsId >= task.tfsId
         THEN <<Head(sorted)>> \o InsertDesc(Tail(sorted), task)
         ELSE <<task>> \o sorted

RECURSIVE SortDesc(_)
SortDesc(tasks) ==
    IF tasks = <<>> THEN <<>>
    ELSE InsertDesc(SortDesc(SubSeq(tasks, 1, Len(tasks) - 1)), tasks[Len(tasks)])

getMergedData(data3e, dataScore) ==
    LET timesheetData == parseTimesheetData(data3e)
        scoreData     == parseTfsScoreData(dataScore)
        st            == MergeLoop(timesheetData, ScoreMapOf(scoreData, Len(scoreData)),
                                   Len(timesheetData))
    IN  SortDesc(st.out \o [i \in 1..Len(st.scoreMap) |-> StandaloneTask(st.scoreMap[i])])

-----------------------------------------------------------------------------
(* The TfsTask collection and the engines of routes/api/tfs.js.             *)
(* A document keeps the fields the schema declares; a field the schema does *)
(* not declare (matterNumber, tfsIdNotEntered, estimateSource,              *)
(* estimateGroup, firstDate, lastDate) is not stored by strict mode.        *)

MARKER == "[TFS ID Not Entered]"

Doc(id, title, est, q, entries, total, breakdown, byDate) ==
    [tfsId |-> id, title |-> title, estimated |-> est, quality |-> q,
     timeEntries |-> entries, totalActualHours |-> total,
     developerBreakdown |-> breakdown, developerBreakdownByDate |-> byDate]

\* the collection with document doc written under its tfsId
Saved(coll, doc) ==
    [id \in DOMAIN coll \cup {doc.tfsId} |-> IF id = doc.tfsId THEN doc ELSE coll[id]]

\* Math.ceil of a non-negative number of hours, in tenths
Ceil(h) == ((h + Tenth - 1) \div Tenth) * Tenth

RECURSIVE BreakdownOf(_, _)
BreakdownOf(entries, n) ==
    IF n = 0 THEN <<>>
    ELSE AddHours(BreakdownOf(entries, n - 1),
                  entries[n].firstName \o " " \o entries[n].lastName, entries[n].workHrs)

RECURSIVE BreakdownByDateOf(_, _)
BreakdownByDateOf(entries, n) ==
    IF n = 0 THEN <<>>
    ELSE IF entries[n].workDateOnly # ""
         THEN AddDateHours(BreakdownByDateOf(entries, n - 1),
                           entries[n].firstName \o " " \o entries[n].lastName,
                           entries[n].workDateOnly, entries[n].workHrs)
         ELSE BreakdownByDateOf(entries, n - 1)

RECURSIVE SumHours(_, _)
SumHours(entries, n) ==
    IF n = 0 THEN 0 ELSE SumHours(entries, n - 1) + entries[n].workHrs

\* tfsTaskSchema.methods.recalculateTotals
recalculateTotals(doc) ==
    [doc EXCEPT !.totalActualHours = SumHours(doc.timeEntries, Len(doc.timeEntries)),
                !.developerBreakdown = BreakdownOf(doc.timeEntries, Len(doc.timeEntries)),
                !.developerBreakdownByDate =
                    BreakdownByDateOf(doc.timeEntries, Len(doc.timeEntries))]

\* position at which a developer first appears in the entries: the
\* insertion order of the breakdown's keys
FirstSeen(doc, name) ==
    LET at == {i \in 1..Len(doc.timeEntries) :
                 doc.timeEntries[i].firstName \o " " \o doc.timeEntries[i].lastName = name}
    IN  IF at = {} THEN Len(doc.timeEntries) + 1 ELSE Leftmost(at)

\* Object.keys(task.developerBreakdown) of a stored Map does not list the
\* Map's entries: it is empty, or it holds the Map's own bookkeeping
\* properties, as the Mongoose build has it; keysSeen tells which.
\* With keys seen and no entry, sorted[0][0] throws a TypeError
PrimaryThrows(doc, keysSeen) == keysSeen /\ DOMAIN doc.developerBreakdown = {}

\* the developer with the most hours; a stable sort leaves the first
\* inserted of equal ones in front
getPrimaryDeveloper(doc, keysSeen) ==
    IF ~keysSeen \/ DOMAIN doc.developerBreakdown = {} THEN "Unknown"
    ELSE CHOOSE name \in DOMAIN doc.developerBreakdown :
            \A other \in DOMAIN doc.developerBreakdown :
                \/ doc.developerBreakdown[name] > doc.developerBreakdown[other]
                \/ /\ doc.developerBreakdown[name] = doc.developerBreakdown[other]
                   /\ FirstSeen(doc, name) <= FirstSeen(doc, other)

RECURSIVE InsertAsc(_, _)
InsertAsc(sorted, v) ==
    IF sorted = <<>> THEN <<v>>
    ELSE IF Head(sorted) <= v THEN <<Head(sorted)>> \o InsertAsc(Tail(sorted), v)
    ELSE <<v>> \o sorted

RECURSIVE SortAsc(_)
SortAsc(values) ==
    IF values = <<>> THEN <<>>
    ELSE InsertAsc(SortAsc(SubSeq(values, 1, Len(values) - 1)), values[Len(values)])

\* variant: the upper of the two middle values of an even-sized list
median2UpperMiddle(values) ==
    IF Len(values) = 0 THEN 0
    ELSE 2 * SortAsc(values)[(Len(values) \div 2) + 1]

\* median(values), returned doubled so that the mean of the two middle
\* values of an even-sized list stays an integer
median2(values) ==
    IF Len(values) = 0 THEN 0
    ELSE LET sorted == SortAsc(values)
             mid    == (Len(sorted) \div 2) + 1
         IN  IF Len(sorted) % 2 # 0 THEN 2 * sorted[mid]
             ELSE sorted[mid - 1] + sorted[mid]

Abs(x) == IF x < 0 THEN 0 - x ELSE x

\* a set of ids as a sequence, in ascending order
RECURSIVE SeqOfSet(_)
SeqOfSet(S) ==
    IF S = {} THEN <<>>
    ELSE LET least == CHOOSE x \in S : \A y \in S : x <= y
         IN  <<least>> \o SeqOfSet(S \ {least})

\* the statistics of one group: actuals are tenths of an hour, med is kept
\* in twentieths, mad in fortieths and raw = med + 0.5 * mad in eightieths;
\* estimate is raw >= 100 ? Math.ceil(raw / 10) * 10 : Math.round(raw) || 1
GroupStats(actuals) ==
    LET med    == median2(actuals)
        mad    == median2([i \in 1..Len(actuals) |-> Abs(2 * actuals[i] - med)])
        raw    == 4 * med + mad
        perHr  == 8 * Tenth
        whole  == IF raw >= 100 * perHr
                  THEN ((raw + 10 * perHr - 1) \div (10 * perHr)) * 10
                  ELSE (2 * raw + perHr) \div (2 * perHr)
    IN  [med |-> med, mad |-> mad, raw |-> raw,
         estimate |-> (IF whole = 0 THEN 1 ELSE whole) * Tenth]

\* variant: a find() without totalActualHours: { $gt: 0 }
NeedsEstimateAnyHours(doc) == doc.estimated = NULL

\* the find() of calculateBellCurveEstimates
NeedsEstimate(doc) == doc.totalActualHours > 0 /\ doc.estimated = NULL

\* groupBy === 'matter' ? (task.matterNumber || 'Unknown') : getPrimaryDeveloper(task);
\* a stored document has no matterNumber
GroupKey(doc, groupBy, keysSeen) ==
    IF groupBy = "matter" THEN "Unknown" ELSE getPrimaryDeveloper(doc, keysSeen)

\* variant: task.estimated = estimate, without the floor at the task's own hours
EstimateForNoFloor(estimate, doc) == estimate

\* task.estimated = Math.max(estimate, Math.ceil(task.totalActualHours))
EstimateFor(estimate, doc) ==
    IF estimate >= Ceil(doc.totalActualHours) THEN estimate ELSE Ceil(doc.totalActualHours)

\* Math.round(v * 100) / 100 of v = x / per hours, in hundredths of an hour
RoundHundredths(x, per) == (200 * x + per) \div (2 * per)

\* the object pushed onto groupStats for one group
StatsEntry(key, taskCount, stats) ==
    [group     |-> key,
     taskCount |-> taskCount,
     median    |-> RoundHundredths(stats.med, 2 * Tenth),
     mad       |-> RoundHundredths(stats.mad, 4 * Tenth),
     estimate  |-> stats.estimate]

\* GET /estimate-preview: the documents are read with lean(), so that
\* Object.keys lists the developers of a breakdown; nothing is saved
estimatePreview(coll, groupBy) ==
    LET tasks    == {id \in DOMAIN coll : NeedsEstimate(coll[id])}
        keyOf    == [id \in tasks |-> GroupKey(coll[id], groupBy, TRUE)]
        keys     == {keyOf[id] : id \in tasks}
        groupOf  == [key \in keys |-> SeqOfSet({id \in tasks : keyOf[id] = key})]
        statsOf  == [key \in keys |->
                        GroupStats([i \in 1..Len(groupOf[key]) |->
                                       coll[groupOf[key][i]].totalActualHours])]
    IN  [groups     |-> {[stats   |-> StatsEntry(key, Len(groupOf[key]), statsOf[key]),
                          taskIds |-> groupOf[key]] : key \in keys},
         totalTasks |-> Cardinality(tasks)]

\* the whole pass; a throw while grouping comes before the first save
calculateBellCurveEstimates(coll, groupBy, keysSeen) ==
    LET tasks    == {id \in DOMAIN coll : NeedsEstimate(coll[id])}
        threw    == groupBy = "developer" /\ \E id \in tasks : PrimaryThrows(coll[id], keysSeen)
        keyOf    == [id \in tasks |-> GroupKey(coll[id], groupBy, keysSeen)]
        keys     == {keyOf[id] : id \in tasks}
        groupOf  == [key \in keys |-> SeqOfSet({id \in tasks : keyOf[id] = key})]
        statsOf  == [key \in keys |->
                        GroupStats([i \in 1..Len(groupOf[key]) |->
                                       coll[groupOf[key][i]].totalActualHours])]
    IN  IF threw
        THEN [store |-> coll, ids |-> {}, updated |-> 0, groups |-> 0, threw |-> TRUE,
              groupStats |-> {}]
        ELSE [store   |-> [id \in DOMAIN coll |->
                             IF id \in tasks
                             THEN [coll[id] EXCEPT !.estimated =
                                     EstimateFor(statsOf[keyOf[id]].estimate, coll[id])]
                             ELSE coll[id]],
              ids     |-> tasks,
              updated |-> Cardinality(tasks),
              groups  |-> Cardinality(keys),
              threw   |-> FALSE,
              groupStats |-> {StatsEntry(key, Len(groupOf[key]), statsOf[key]) : key \in keys}]

\* the find() of calculateBellCurveQuality
NeedsQuality(doc) ==
    doc.totalActualHours > 0 /\ doc.estimated # NULL /\ doc.estimated > 0 /\ doc.quality = NULL

\* variant: the boundaries -0.25, -0.10 and 0.25 taken as exclusive
QualityForExclusive(actual, estimated) ==
    IF 4 * (actual - estimated) < 0 - estimated THEN 5
    ELSE IF 10 * (actual - estimated) < 0 - estimated THEN 4
    ELSE IF 4 * (actual - estimated) < estimated THEN 3
    ELSE 2

\* variant: the variance taken as estimated - actual
QualityForSwapped(actual, estimated) ==
    IF 4 * (estimated - actual) <= 0 - estimated THEN 5
    ELSE IF 10 * (estimated - actual) <= 0 - estimated THEN 4
    ELSE IF 4 * (estimated - actual) <= estimated THEN 3
    ELSE 2

\* variancePercent = (actual - estimated) / estimated against the thresholds
\* -0.25, -0.10 and 0.25, each comparison multiplied out by estimated > 0
QualityFor(actual, estimated) ==
    IF 4 * (actual - estimated) <= 0 - estimated THEN 5
    ELSE IF 10 * (actual - estimated) <= 0 - estimated THEN 4
    ELSE IF 4 * (actual - estimated) <= estimated THEN 3
    ELSE 2

calculateBellCurveQuality(coll) ==
    LET tasks == {id \in DOMAIN coll : NeedsQuality(coll[id])}
    IN  [store   |-> [id \in DOMAIN coll |->
                        IF id \in tasks
                        THEN [coll[id] EXCEPT !.quality =
                                QualityFor(coll[id].totalActualHours, coll[id].estimated)]
                        ELSE coll[id]],
         ids     |-> tasks,
         updated |-> Cardinality(tasks)]

\* variant: a find() that takes every task with an estimate
IsLowEstimateAny(doc) == doc.estimated # NULL

\* the find() of fixLowEstimates
IsLowEstimate(doc) ==
    doc.totalActualHours > 0 /\ doc.estimated # NULL /\ doc.estimated < doc.totalActualHours

\* variant: task.estimated = task.totalActualHours, not rounded up
FixedEstimateNoCeil(doc) == doc.totalActualHours

\* task.estimated = Math.ceil(task.totalActualHours)
FixedEstimate(doc) == Ceil(doc.totalActualHours)

fixLowEstimates(coll) ==
    LET tasks == {id \in DOMAIN coll : IsLowEstimate(coll[id])}
    IN  [store |-> [id \in DOMAIN coll |->
                      IF id \in tasks
                      THEN [coll[id] EXCEPT !.estimated = FixedEstimate(coll[id])]
                      ELSE coll[id]],
         ids   |-> tasks,
         fixed |-> Cardinality(tasks)]

-----------------------------------------------------------------------------
(* POST /api/tfs/import                                                    *)

\* the title written for one merged task
TaskTitle(taskData) ==
    IF taskData.tfsIdNotEntered /\ ~includes(taskData.title, MARKER)
    THEN (IF taskData.title # "" THEN taskData.title \o " " \o MARKER ELSE MARKER)
    ELSE taskData.title

\* timeEntrySchema: firstName, lastName and workDate are required, '' is not
\* a value, and an entry built from a row with no WorkDate has workDate null
EntriesValid(entries) ==
    \A i \in 1..Len(entries) :
        /\ entries[i].firstName # ""
        /\ entries[i].lastName # ""
        /\ entries[i].workDateOnly # ""

\* variant: existingTask.timeEntries.push(...taskData.timeEntries)
UpsertSavedAppending(st, taskData, taskTitle) ==
    IF taskData.tfsId \in DOMAIN st.store
    THEN [st EXCEPT
            !.store = Saved(st.store,
                          recalculateTotals(
                              [st.store[taskData.tfsId] EXCEPT
                                  !.timeEntries = @ \o taskData.timeEntries,
                                  !.title = IF taskTitle # "" THEN taskTitle ELSE @])),
            !.updated = @ + 1]
    ELSE [st EXCEPT
            !.store = Saved(st.store,
                          Doc(taskData.tfsId, taskTitle, taskData.estimated,
                              taskData.quality, taskData.timeEntries,
                              taskData.totalActualHours, taskData.developerBreakdown,
                              taskData.developerBreakdownByDate)),
            !.imported = @ + 1]

\* variant: existingTask.title = existingTask.title + ' ' + taskTitle
UpsertSavedTitleGrows(st, taskData, taskTitle) ==
    IF taskData.tfsId \in DOMAIN st.store
    THEN [st EXCEPT
            !.store = Saved(st.store,
                          recalculateTotals(
                              [st.store[taskData.tfsId] EXCEPT
                                  !.timeEntries = taskData.timeEntries,
                                  !.title = IF taskTitle # "" THEN @ \o " " \o taskTitle ELSE @])),
            !.updated = @ + 1]
    ELSE [st EXCEPT
            !.store = Saved(st.store,
                          Doc(taskData.tfsId, taskTitle, taskData.estimated,
                              taskData.quality, taskData.timeEntries,
                              taskData.totalActualHours, taskData.developerBreakdown,
                              taskData.developerBreakdownByDate)),
            !.imported = @ + 1]

\* variant: a generated task whose identifier is already stored is created
\* under the next identifier below those stored
UpsertSavedFreshId(st, taskData, taskTitle) ==
    LET taken == taskData.tfsId < 0 /\ taskData.tfsId \in DOMAIN st.store
        lowest == CHOOSE id \in DOMAIN st.store : \A other \in DOMAIN st.store : id <= other
        tfsId == IF taken THEN lowest - 1 ELSE taskData.tfsId
    IN  IF tfsId \in DOMAIN st.store
        THEN [st EXCEPT
                !.store = Saved(st.store,
                              recalculateTotals(
                                  [st.store[tfsId] EXCEPT
                                      !.timeEntries = taskData.timeEntries,
                                      !.title = IF taskTitle # "" THEN taskTitle ELSE @])),
                !.updated = @ + 1]
        ELSE [st EXCEPT
                !.store = Saved(st.store,
                              Doc(tfsId, taskTitle, taskData.estimated,
                                  taskData.quality, taskData.timeEntries,
                                  taskData.totalActualHours, taskData.developerBreakdown,
                                  taskData.developerBreakdownByDate)),
                !.imported = @ + 1]

\* the two branches on existingTask, each ending in a save that passes
\* validation; st is [store, imported, updated, threw]
UpsertSaved(st, taskData, taskTitle) ==
    IF taskData.tfsId \in DOMAIN st.store
    THEN [st EXCEPT
            !.store = Saved(st.store,
                          recalculateTotals(
                              [st.store[taskData.tfsId] EXCEPT
                                  !.timeEntries = taskData.timeEntries,
                                  !.title = IF taskTitle # "" THEN taskTitle ELSE @])),
            !.updated = @ + 1]
    ELSE [st EXCEPT
            !.store = Saved(st.store,
                          Doc(taskData.tfsId, taskTitle, taskData.estimated,
                              taskData.quality, taskData.timeEntries,
                              taskData.totalActualHours, taskData.developerBreakdown,
                              taskData.developerBreakdownByDate)),
            !.imported = @ + 1]

\* one iteration under a given title: save() and create() reject entries
\* that fail validation, and the rejection leaves the loop
UpsertTitled(st, taskData, taskTitle) ==
    IF st.threw THEN st
    ELSE IF ~EntriesValid(taskData.timeEntries) THEN [st EXCEPT !.threw = TRUE]
    ELSE UpsertSaved(st, taskData, taskTitle)

\* one iteration of the loop over mergedData
UpsertTask(st, taskData) == UpsertTitled(st, taskData, TaskTitle(taskData))

RECURSIVE UpsertLoop(_, _, _)
UpsertLoop(coll, mergedData, n) ==
    IF n = 0 THEN [store |-> coll, imported |-> 0, updated |-> 0, threw |-> FALSE]
    ELSE UpsertTask(UpsertLoop(coll, mergedData, n - 1), mergedData[n])

\* variant: the catch block answers without touching the file
UnlinkInCatchNever(hasFile, exists) == exists

\* catch: if (req.file && fs.existsSync(req.file.path)) fs.unlinkSync(...);
\* the value is whether the uploaded file is still on disk afterwards
UnlinkInCatch(hasFile, exists) == exists /\ ~hasFile

\* if (cleanupFile && fs.existsSync(excelPath)) fs.unlinkSync(excelPath)
UnlinkAfterBatch(cleanupFile, exists) == exists /\ ~cleanupFile

\* the catch block: status 500 with whatever was saved before the throw
ImportFailed(coll, hasFile, exists) ==
    [status |-> 500, store |-> coll, imported |-> 0, updated |-> 0,
     ids |-> {}, estimatesCalculated |-> 0, estimatesCorrected |-> 0,
     qualityIds |-> {}, qualityCalculated |-> 0,
     tempFile |-> UnlinkInCatch(hasFile, exists)]

\* the response once the three automatic passes have run
ImportScored(up, est, fix, qual) ==
    [status              |-> 200,
     store               |-> qual.store,
     imported            |-> up.imported,
     updated             |-> up.updated,
     ids                 |-> est.ids,
     estimatesCalculated |-> est.updated,
     estimatesCorrected  |-> fix.fixed,
     qualityIds          |-> qual.ids,
     qualityCalculated   |-> qual.updated,
     tempFile            |-> up.tempFile]

\* variant: the response is sent without the quality pass
ImportFixedUnscored(up, est, fix) ==
    ImportScored(up, est, fix, [store |-> fix.store, ids |-> {}, updated |-> 0])

\* fixLowEstimates has run: calculateBellCurveQuality
ImportFixed(up, est, fix) ==
    ImportScored(up, est, fix, calculateBellCurveQuality(fix.store))

\* calculateBellCurveEstimates('developer') has run: a throw ends the
\* handler in its catch, with the upserts already saved; else fixLowEstimates
ImportEstimated(up, est) ==
    IF est.threw
    THEN ImportFailed(up.store, up.hasFile, up.tempFile)
    ELSE ImportFixed(up, est, fixLowEstimates(est.store))

\* the file has been dealt with: the first automatic pass, whose first query
\* the database rejects under the fault "passes"
ImportUpserted(up, keysSeen, fault) ==
    IF fault = "passes"
    THEN ImportFailed(up.store, up.hasFile, up.tempFile)
    ELSE ImportEstimated(up, calculateBellCurveEstimates(up.store, "developer", keysSeen))

\* the loop over mergedData has ended: in the catch block after a throw,
\* else past the removal of the uploaded file
ImportLooped(up, hasFile, keysSeen, fault) ==
    IF up.threw
    THEN ImportFailed(up.store, hasFile, hasFile)
    ELSE ImportUpserted([store |-> up.store, imported |-> up.imported,
                         updated |-> up.updated, hasFile |-> hasFile,
                         tempFile |-> UnlinkAfterBatch(hasFile, hasFile)],
                        keysSeen, fault)

\* the loop over mergedData; under the fault "save" the database rejects the
\* first write of the batch
ImportMerged(coll, mergedData, fault) ==
    IF fault = "save" /\ Len(mergedData) > 0
    THEN [store |-> coll, imported |-> 0, updated |-> 0, threw |-> TRUE]
    ELSE UpsertLoop(coll, mergedData, Len(mergedData))

\* parseSheet: the rows of the named sheet, and [] when the workbook has no
\* such sheet; book is [sheets, rows, scores]
parseSheet(book, sheetName) ==
    IF sheetName \notin book.sheets THEN <<>>
    ELSE IF sheetName = "3e" THEN book.rows
    ELSE book.scores

\* the handler from deleteMany on; req is [source, clearData, keysSeen, fault];
\* under the fault "load" the workbook cannot be read
ImportLoaded(coll, book, req) ==
    IF req.fault = "load"
    THEN ImportFailed(IF req.clearData THEN <<>> ELSE coll,
                      req.source = "upload", req.source = "upload")
    ELSE ImportLooped(ImportMerged(IF req.clearData THEN <<>> ELSE coll,
                                   getMergedData(parseSheet(book, "3e"),
                                                 parseSheet(book, "scorebyTFS")),
                                   req.fault),
                      req.source = "upload", req.keysSeen, req.fault)

\* the whole handler: the uploaded file, else the default file, else 400;
\* then the optional deleteMany, the upsert loop and the three automatic passes
ImportResult(coll, book, req) ==
    IF req.source = "none"
    THEN [status |-> 400, store |-> coll, imported |-> 0, updated |-> 0,
          ids |-> {}, estimatesCalculated |-> 0, estimatesCorrected |-> 0,
          qualityIds |-> {}, qualityCalculated |-> 0, tempFile |-> FALSE]
    ELSE ImportLoaded(coll, book, req)

-----------------------------------------------------------------------------
(* POST /api/tfs and PUT /api/tfs/:id                                      *)

\* a request field that is undefined (absent from the body)
Unset == 0 - 2

\* the date-only string of the entry date of manual entries
ManualDate == "2025-01-03"

\* dev.name.split(' '): the first word, and the other words joined again
SplitName(name) ==
    LET spaces == {i \in 1..Len(name) : Ch(name, i) = " "}
    IN  IF spaces = {} THEN [first |-> name, last |-> ""]
        ELSE [first |-> SubSeq(name, 1, Leftmost(spaces) - 1),
              last  |-> SubSeq(name, Leftmost(spaces) + 1, Len(name))]

ManualEntry(dev) ==
    [timekeeperNumber |-> 0,
     lastName         |-> SplitName(dev.name).last,
     firstName        |-> SplitName(dev.name).first,
     workDateOnly     |-> ManualDate,
     workHrs          |-> dev.hours,
     narrative        |-> "Manually entered",
     activityCodeDesc |-> ""]

\* developerBreakdown[dev.name] = dev.hours
SetHours(map, key, hrs) ==
    [k \in DOMAIN map \cup {key} |-> IF k = key THEN hrs ELSE map[k]]

\* developers.forEach: the entries, the breakdowns and the running total
\* built from the developers with a name and positive hours
RECURSIVE ManualParts(_, _)
ManualParts(developers, n) ==
    IF n = 0
    THEN [timeEntries |-> <<>>, developerBreakdown |-> <<>>,
          developerBreakdownByDate |-> <<>>, totalActualHours |-> 0]
    ELSE LET acc == ManualParts(developers, n - 1)
             dev == developers[n]
         IN  IF dev.name # "" /\ dev.hours > 0
             THEN [timeEntries |-> Append(acc.timeEntries, ManualEntry(dev)),
                   developerBreakdown |-> SetHours(acc.developerBreakdown, dev.name, dev.hours),
                   developerBreakdownByDate |->
                       [k \in DOMAIN acc.developerBreakdownByDate \cup {dev.name} |->
                           IF k = dev.name THEN (ManualDate :> dev.hours)
                           ELSE acc.developerBreakdownByDate[k]],
                   totalActualHours |-> acc.totalActualHours + dev.hours]
             ELSE acc

\* POST /: req is [tfsId, estimated, quality, actualHours, developers]
PostResult(coll, req) ==
    LET parts == ManualParts(req.developers, Len(req.developers))
        doc   == Doc(req.tfsId, "",
                     IF req.estimated \in {Unset, NULL, 0} THEN NULL ELSE req.estimated,
                     IF req.quality \in {Unset, NULL, 0} THEN NULL ELSE req.quality,
                     parts.timeEntries,
                     IF req.actualHours \in {Unset, NULL, 0}
                     THEN parts.totalActualHours ELSE req.actualHours,
                     parts.developerBreakdown, parts.developerBreakdownByDate)
    IN  IF req.tfsId = NoId \/ req.tfsId \in DOMAIN coll THEN [status |-> 400, store |-> coll]
        ELSE IF ~EntriesValid(parts.timeEntries) THEN [status |-> 500, store |-> coll]
        ELSE [status |-> 201, store |-> Saved(coll, doc)]

\* variant: the identifier is changed without looking for existingTarget
PutResultUnchecked(coll, originalId, req) ==
    LET newTfsId == IF req.tfsId \in {Unset, NoId} THEN originalId ELSE req.tfsId
    IN  IF originalId \notin DOMAIN coll THEN [status |-> 404, store |-> coll]
        ELSE [status |-> 200,
              store  |-> Saved([id \in DOMAIN coll \ {originalId} |-> coll[id]],
                               [coll[originalId] EXCEPT
                                   !.tfsId = newTfsId,
                                   !.estimated = IF req.estimated = Unset THEN @ ELSE req.estimated,
                                   !.quality = IF req.quality = Unset THEN @ ELSE req.quality])]

\* PUT /:id with a body of [tfsId, estimated, quality, mergeWithExisting];
\* title, application, developers, actualHours and workDate are not sent
PutResult(coll, originalId, req) ==
    LET newTfsId == IF req.tfsId \in {Unset, NoId} THEN originalId ELSE req.tfsId
        given(v) == v # Unset /\ v # NULL
    IN  IF originalId \notin DOMAIN coll THEN [status |-> 404, store |-> coll]
        ELSE
        LET task == coll[originalId]
            basic == [task EXCEPT
                        !.tfsId = newTfsId,
                        !.estimated = IF req.estimated = Unset THEN @ ELSE req.estimated,
                        !.quality = IF req.quality = Unset THEN @ ELSE req.quality]
            others == [id \in DOMAIN coll \ {originalId} |-> coll[id]]
        IN  IF newTfsId # originalId /\ newTfsId \in DOMAIN coll
            THEN IF req.mergeWithExisting
                 THEN LET existingTarget == coll[newTfsId]
                          summed == [existingTarget EXCEPT
                              !.timeEntries = @ \o task.timeEntries,
                              !.totalActualHours = @ + task.totalActualHours,
                              !.estimated =
                                  IF given(req.estimated)
                                  THEN (IF @ # NULL THEN @ + req.estimated ELSE req.estimated)
                                  ELSE IF task.estimated # NULL
                                  THEN (IF @ # NULL THEN @ + task.estimated ELSE task.estimated)
                                  ELSE @,
                              !.quality = IF given(req.quality) THEN req.quality ELSE @]
                      IN  [status |-> 200, store |-> Saved(others, recalculateTotals(summed))]
                 ELSE [status |-> 400, store |-> coll]
            ELSE [status |-> 200, store |-> Saved(others, basic)]

-----------------------------------------------------------------------------
(* ExtractSpec: extractTfsId applied to narratives assembled from fragments *)

MaxFragments == 4

Fragments ==
    {"TFS", "tfs ", "Task", "Task 100 ", " ", "-", "^", ">", "x",
     "12345", "67890", "00123"}

ExtractInit ==
    /\ narrative = ""
    /\ extracted = NoId
    /\ nFragments = 0
    /\ sheet3e = <<>>
    /\ sheetScore = <<>>
    /\ drafts = <<>>
    /\ merged = <<>>
    /\ store = <<>>
    /\ lastOp = "none"
    /\ lastResult = <<>>
    /\ nImports = 0
    /\ nEdits = 0
    /\ inFlight = <<>>

ExtractNarrative ==
    /\ nFragments < MaxFragments
    /\ \E f \in Fragments :
          /\ narrative' = narrative \o f
          /\ extracted' = extractTfsId(narrative \o f)
    /\ nFragments' = nFragments + 1
    /\ UNCHANGED <<parseVars, storeVars>>

ExtractNext == ExtractNarrative

ExtractSpec == ExtractInit /\ [][ExtractNext]_vars

-----------------------------------------------------------------------------
(* ParseSpec: parseTimesheetData applied to sheets built row by row         *)

MaxRows == 4

ParseInit ==
    /\ sheet3e = <<>>
    /\ sheetScore = <<>>
    /\ drafts = <<>>
    /\ merged = <<>>
    /\ narrative = ""
    /\ extracted = NoId
    /\ nFragments = 0
    /\ store = <<>>
    /\ lastOp = "none"
    /\ lastResult = <<>>
    /\ nImports = 0
    /\ nEdits = 0
    /\ inFlight = <<>>

AddRow ==
    /\ Len(sheet3e) < MaxRows
    /\ \E row \in RowSpace :
          /\ sheet3e' = Append(sheet3e, row)
          /\ drafts' = parseTimesheetData(Append(sheet3e, row))
          /\ merged' = getMergedData(Append(sheet3e, row), sheetScore)
    /\ UNCHANGED <<sheetScore, extractVars, storeVars>>

ParseNext == AddRow

ParseSpec == ParseInit /\ [][ParseNext]_vars

-----------------------------------------------------------------------------
(* MergeSpec: getMergedData applied to both sheets built row by row         *)

MaxMergeRows == 2
MaxScoreRows == 2

ScoreSpace ==
    {ScoreRow(id, "", NULL, NULL) : id \in {NoId, 12345, 67890}}
    \cup {ScoreRow(id, "Fix login", 80, 4) : id \in {NoId, 12345, 67890}}
    \cup {ScoreRow(id, "", 0, NULL) : id \in {NoId, 12345, 67890}}
    \cup {ScoreRow(id, "Alt", 50, 3) : id \in {NoId, 12345, 67890}}

MergeInit == ParseInit

AddMergeRow ==
    /\ Len(sheet3e) < MaxMergeRows
    /\ \E row \in MergeRowSpace :
          /\ sheet3e' = Append(sheet3e, row)
          /\ drafts' = parseTimesheetData(Append(sheet3e, row))
          /\ merged' = getMergedData(Append(sheet3e, row), sheetScore)
    /\ UNCHANGED <<sheetScore, extractVars, storeVars>>

AddScoreRow ==
    /\ Len(sheetScore) < MaxScoreRows
    /\ \E row \in ScoreSpace :
          /\ sheetScore' = Append(sheetScore, row)
          /\ merged' = getMergedData(sheet3e, Append(sheetScore, row))
    /\ UNCHANGED <<sheet3e, drafts, extractVars, storeVars>>

MergeNext == AddMergeRow \/ AddScoreRow

MergeSpec == MergeInit /\ [][MergeNext]_vars

-----------------------------------------------------------------------------
(* Spec: workbooks imported, estimates edited, and the three engines;      *)
(* EngineSpec: tasks entered by hand, and the three engines                *)

MaxManualId == 2
MaxImports == 2
MaxEdits == 2

ManualIds == 1..MaxManualId

Dev(name, hours) == [name |-> name, hours |-> hours]

PostBody(est, q, hours, developers) ==
    [tfsId |-> NoId, estimated |-> est, quality |-> q, actualHours |-> hours,
     developers |-> developers]

ManualBodies ==
    {PostBody(Unset, Unset, Unset, <<Dev("A B", h)>>) : h \in {74, 126}}
    \cup {PostBody(100, Unset, Unset, <<Dev("A B", h)>>) : h \in {75, 90, 125, 126}}
    \cup {PostBody(Unset, Unset, 50, <<>>)}

\* the workbooks uploaded: sheet "3e" and sheet "scorebyTFS"
Workbook(rows, scores) ==
    [sheets |-> {"3e", "scorebyTFS"}, rows |-> rows, scores |-> scores]

\* the same workbook with one sheet deleted
WithoutSheet(book, sheetName) == [book EXCEPT !.sheets = @ \ {sheetName}]

BookTask100 ==
    Workbook(<<Row(1, "A", "B", "2025-01-01", 40, "TFS Task 100 - fix", "Development", "7300", "Admin")>>,
             <<ScoreRow(100, "", 80, NULL)>>)

BookTask12345 ==
    Workbook(<<Row(1, "A", "B", "2025-01-01", 40, "TFS Task 12345 - fix", "Development", "7300", "Admin")>>,
             <<ScoreRow(12345, "", 80, NULL)>>)

BookTwoTasks ==
    Workbook(<<Row(1, "A", "B", "2025-01-01", 40, "TFS Task 12345 - fix", "Development", "7300", "Admin"),
               Row(1, "A", "B", "2025-01-02", 124, "Task 67890 done", "Development", "7301", "")>>,
             <<>>)

\* hours of C D on a narrative with no identifier in range: a generated task
BookPlaceholder ==
    Workbook(<<Row(2, "C", "D", "2025-01-01", 25, "TFS Task 100 - fix", "Development", "7300", "Admin")>>,
             <<>>)

Workbooks == {BookTask100, BookTask12345, BookTwoTasks, BookPlaceholder}

\* task 12345 again, under another title, estimate and quality
BookRescored ==
    Workbook(<<Row(1, "A", "B", "2025-01-01", 25, "TFS Task 12345 - fix", "Development", "7300", "Admin")>>,
             <<ScoreRow(12345, "Rework", 50, 3)>>)

\* a good row for task 67890 and a row for task 12345 with no WorkDate
BookMalformed ==
    Workbook(<<Row(1, "A", "B", "2025-01-02", 40, "Task 67890 done", "Development", "7301", ""),
               Row(2, "C", "D", "", NULL, "TFS 12345 review", "", "", "")>>,
             <<>>)

\* the workbooks sent to the handler, two of them lacking a sheet
UploadBooks ==
    {BookTask100, BookTask12345, BookRescored, BookMalformed,
     WithoutSheet(BookTask12345, "3e"), WithoutSheet(BookTask12345, "scorebyTFS")}

NoResult ==
    [status |-> 0, repeated |-> FALSE, book |-> Workbook(<<>>, <<>>), wasEmpty |-> FALSE,
     ids |-> {}, updated |-> 0, groups |-> 0, fixed |-> 0, imported |-> 0,
     qualityIds |-> {}, source |-> "none", fault |-> "none", tempFile |-> FALSE,
     edited |-> NoId, target |-> NoId, merge |-> FALSE, groupBy |-> "",
     groupStats |-> {}]

Init ==
    /\ store = <<>>
    /\ lastOp = "none"
    /\ lastResult = NoResult
    /\ nImports = 0
    /\ nEdits = 0
    /\ inFlight = <<>>
    /\ narrative = ""
    /\ extracted = NoId
    /\ nFragments = 0
    /\ sheet3e = <<>>
    /\ sheetScore = <<>>
    /\ drafts = <<>>
    /\ merged = <<>>

\* the response is sent: the collection is coll, and the request is on record
Handled(op, result, coll) ==
    /\ store' = coll
    /\ lastOp' = op
    /\ lastResult' = [result EXCEPT !.repeated = (lastOp = op)]
    /\ UNCHANGED <<extractVars, parseVars, inFlight>>

\* POST /api/tfs
PostHandled(res) == Handled("post", [NoResult EXCEPT !.status = res.status], res.store)

PostTask ==
    /\ \E id \in ManualIds, body \in ManualBodies :
          PostHandled(PostResult(store, [body EXCEPT !.tfsId = id]))
    /\ UNCHANGED <<nImports, nEdits>>

\* the estimates sent in edits: null, 7.7 and 12.7 hours
EditedEstimates == {NULL, 77, 127}

\* PUT /api/tfs/:id changing the estimate only
PutHandled(res) == Handled("put", [NoResult EXCEPT !.status = res.status], res.store)

PutEstimate ==
    /\ nEdits < MaxEdits
    /\ \E id \in DOMAIN store, est \in EditedEstimates :
          PutHandled(PutResult(store, id, [tfsId |-> Unset, estimated |-> est,
                                           quality |-> Unset, mergeWithExisting |-> FALSE]))
    /\ nEdits' = nEdits + 1
    /\ UNCHANGED nImports

\* POST /api/tfs/calculate-estimates
EstimatesHandled(res, groupBy) ==
    Handled("calculate-estimates",
            [NoResult EXCEPT !.status = IF res.threw THEN 500 ELSE 200,
                             !.ids = res.ids, !.updated = res.updated,
                             !.groups = res.groups, !.groupBy = groupBy,
                             !.groupStats = res.groupStats],
            res.store)

CalculateEstimates ==
    /\ \E groupBy \in {"developer", "matter"}, keysSeen \in BOOLEAN :
          EstimatesHandled(calculateBellCurveEstimates(store, groupBy, keysSeen), groupBy)
    /\ UNCHANGED <<nImports, nEdits>>

\* GET /api/tfs/estimate-preview
PreviewHandled(res, groupBy) ==
    Handled("estimate-preview",
            [NoResult EXCEPT !.status = 200, !.updated = res.totalTasks,
                             !.groups = Cardinality(res.groups), !.groupBy = groupBy,
                             !.groupStats = {g.stats : g \in res.groups}],
            store)

EstimatePreview ==
    /\ \E groupBy \in {"developer", "matter"} :
          PreviewHandled(estimatePreview(store, groupBy), groupBy)
    /\ UNCHANGED <<nImports, nEdits>>

\* POST /api/tfs/fix-low-estimates
FixHandled(res) ==
    Handled("fix-low-estimates",
            [NoResult EXCEPT !.status = 200, !.ids = res.ids, !.fixed = res.fixed],
            res.store)

FixLowEstimates ==
    /\ FixHandled(fixLowEstimates(store))
    /\ UNCHANGED <<nImports, nEdits>>

\* POST /api/tfs/calculate-quality
QualityHandled(res) ==
    Handled("calculate-quality",
            [NoResult EXCEPT !.status = 200, !.ids = res.ids, !.updated = res.updated],
            res.store)

CalculateQuality ==
    /\ QualityHandled(calculateBellCurveQuality(store))
    /\ UNCHANGED <<nImports, nEdits>>

\* POST /api/tfs/import
ImportHandled(book, req, wasEmpty, res) ==
    Handled("import",
            [NoResult EXCEPT !.status = res.status, !.book = book,
                             !.wasEmpty = wasEmpty, !.ids = res.ids,
                             !.updated = res.updated, !.imported = res.imported,
                             !.fixed = res.estimatesCorrected,
                             !.qualityIds = res.qualityIds,
                             !.source = req.source, !.fault = req.fault,
                             !.tempFile = res.tempFile],
            res.store)

ImportOf(book, req) ==
    ImportHandled(book, req, req.clearData \/ store = <<>>, ImportResult(store, book, req))

\* a readable workbook is uploaded and the database answers every call
Import ==
    /\ nImports < MaxImports
    /\ \E book \in Workbooks, clearData \in BOOLEAN, keysSeen \in BOOLEAN :
          ImportOf(book, [source |-> "upload", clearData |-> clearData,
                          keysSeen |-> keysSeen, fault |-> "none"])
    /\ nImports' = nImports + 1
    /\ UNCHANGED nEdits

\* where the workbook comes from and what goes wrong while the handler
\* runs: an upload with nothing going wrong, with readFile rejecting, with
\* the first write of the batch rejecting or with the first query of the
\* automatic passes rejecting; the default file; neither file
UploadCases ==
    {[source |-> "upload", fault |-> f] : f \in {"none", "load", "save", "passes"}}
    \cup {[source |-> "default", fault |-> "none"], [source |-> "none", fault |-> "none"]}

\* any request to the handler; the requests of this machine, imports and
\* identifier changes together, are at most MaxImports + 1
Upload ==
    /\ nImports + nEdits <= MaxImports
    /\ \E book \in UploadBooks, case \in UploadCases,
          clearData \in BOOLEAN, keysSeen \in BOOLEAN :
          ImportOf(book, [source |-> case.source, clearData |-> clearData,
                          keysSeen |-> keysSeen, fault |-> case.fault])
    /\ nImports' = nImports + 1
    /\ UNCHANGED nEdits

\* PUT /api/tfs/:id changing the identifier only
RenameHandled(res, id, newTfsId, mergeWithExisting) ==
    Handled("put",
            [NoResult EXCEPT !.status = res.status, !.edited = id, !.target = newTfsId,
                             !.merge = mergeWithExisting],
            res.store)

PutTfsId ==
    /\ nImports + nEdits <= MaxImports
    /\ \E id \in DOMAIN store, newTfsId \in {100, 12345, 67890}, mergeWithExisting \in BOOLEAN :
          RenameHandled(PutResult(store, id, [tfsId |-> newTfsId, estimated |-> Unset,
                                              quality |-> Unset,
                                              mergeWithExisting |-> mergeWithExisting]),
                        id, newTfsId, mergeWithExisting)
    /\ nEdits' = nEdits + 1
    /\ UNCHANGED nImports

Next ==
    \/ Import
    \/ PutEstimate
    \/ CalculateEstimates
    \/ FixLowEstimates
    \/ CalculateQuality

Spec == Init /\ [][Next]_vars

EngineNext ==
    \/ PostTask
    \/ EstimatePreview
    \/ CalculateEstimates
    \/ FixLowEstimates
    \/ CalculateQuality

EngineSpec == Init /\ [][EngineNext]_vars

UploadNext ==
    \/ Upload
    \/ PutTfsId

UploadSpec == Init /\ [][UploadNext]_vars

-----------------------------------------------------------------------------
(* GroupSpec: tasks without estimate entered one after the other, and      *)
(* calculate-estimates                                                     *)

MaxGroup == 3

\* the hours entered: none, 0.4, 7.4, 99.5 and 100.4
GroupHours == {0, 4, 74, 995, 1004}

\* POST /api/tfs for the next free identifier, with one developer's hours
\* and no estimate
PostHours ==
    /\ Cardinality(DOMAIN store) < MaxGroup
    /\ \E name \in {"A B", "C D"}, h \in GroupHours :
          PostHandled(PostResult(store,
                                 [PostBody(Unset, Unset, Unset, <<Dev(name, h)>>)
                                     EXCEPT !.tfsId = Cardinality(DOMAIN store) + 1]))
    /\ UNCHANGED <<nImports, nEdits>>

GroupNext ==
    \/ PostHours
    \/ CalculateEstimates

GroupSpec == Init /\ [][GroupNext]_vars

-----------------------------------------------------------------------------
(* ContributorSpec: tasks entered by hand for Miriah Pooler, and imports   *)
(* of workbooks with and without rows of hers                              *)

\* a row of Miriah Pooler and a row of A B, both for task 12345
BookContributor ==
    Workbook(<<Row(3, "Miriah", "Pooler", "2025-01-01", 40, "TFS Task 12345 - fix", "Development", "7300", "Admin"),
               Row(1, "A", "B", "2025-01-01", 25, "TFS Task 12345 - fix", "Development", "7300", "Admin")>>,
             <<>>)

\* POST /api/tfs with Miriah Pooler as the one developer
PostContributor ==
    /\ \E id \in {1, 12345}, h \in {40, 74}, est \in {Unset, 30}, q \in {Unset, 2} :
          PostHandled(PostResult(store, [PostBody(est, q, Unset, <<Dev("Miriah Pooler", h)>>)
                                            EXCEPT !.tfsId = id]))
    /\ UNCHANGED <<nImports, nEdits>>

ImportContributor ==
    /\ nImports < MaxImports
    /\ \E book \in {BookContributor, BookTask100}, clearData \in BOOLEAN, keysSeen \in BOOLEAN :
          ImportOf(book, [source |-> "upload", clearData |-> clearData,
                          keysSeen |-> keysSeen, fault |-> "none"])
    /\ nImports' = nImports + 1
    /\ UNCHANGED nEdits

ContributorNext == PostContributor \/ ImportContributor

ContributorSpec == Init /\ [][ContributorNext]_vars

-----------------------------------------------------------------------------
(* RaceSpec: two import requests whose handlers interleave at their        *)
(* awaits: the findOne of a task, its save or create, and the passes       *)
(* after the batch                                                         *)

Requests == {1, 2}

RaceBooks == {BookTask12345, BookRescored, BookTwoTasks}

\* parser.getMergedData() of each workbook
RaceBatch ==
    [book \in RaceBooks |->
        getMergedData(parseSheet(book, "3e"), parseSheet(book, "scorebyTFS"))]

\* await TfsTask.findOne({ tfsId: taskData.tfsId }) for the next task of the
\* batch; a request that starts has just parsed its workbook, and a slot is
\* free for the next request once its response is sent
RaceFind ==
    /\ \E p \in Requests :
          \/ /\ p \in DOMAIN inFlight => inFlight[p].pc \in {"done", "failed"}
             /\ \E book \in RaceBooks :
                   inFlight' = (p :> [book |-> book, k |-> 1, pc |-> "found",
                                      found |-> RaceBatch[book][1].tfsId \in DOMAIN store])
                               @@ [q \in DOMAIN inFlight \ {p} |-> inFlight[q]]
          \/ /\ p \in DOMAIN inFlight
             /\ inFlight[p].pc = "next"
             /\ inFlight' =
                   [inFlight EXCEPT ![p].pc = "found",
                                    ![p].found =
                                        RaceBatch[inFlight[p].book][inFlight[p].k].tfsId
                                            \in DOMAIN store]
    /\ UNCHANGED <<store, lastOp, lastResult, nImports, nEdits, extractVars, parseVars>>

\* what follows the findOne: existingTask.save() when a task was found;
\* else TfsTask.create(), which the unique index on tfsId rejects when the
\* identifier has been stored in the meantime, and the handler ends in its
\* catch with status 500
RaceWrite ==
    \E p \in DOMAIN inFlight :
       LET req      == inFlight[p]
           batch    == RaceBatch[req.book]
           taskData == batch[req.k]
           st       == [store |-> store, imported |-> 0, updated |-> 0, threw |-> FALSE]
       IN  /\ req.pc = "found"
           /\ IF ~req.found /\ taskData.tfsId \in DOMAIN store
              THEN /\ inFlight' = [inFlight EXCEPT ![p].pc = "failed"]
                   /\ lastOp' = "import"
                   /\ lastResult' = [NoResult EXCEPT !.status = 500, !.book = req.book]
                   /\ UNCHANGED store
              ELSE /\ store' = UpsertTask(st, taskData).store
                   /\ inFlight' = [inFlight EXCEPT
                                      ![p].pc = IF req.k = Len(batch) THEN "written" ELSE "next",
                                      ![p].k = req.k + 1]
                   /\ UNCHANGED <<lastOp, lastResult>>
           /\ UNCHANGED <<nImports, nEdits, extractVars, parseVars>>

\* the removal of the file and the three passes after the batch, and the
\* response
RacePasses ==
    \E p \in DOMAIN inFlight, keysSeen \in BOOLEAN :
       LET res == ImportUpserted([store |-> store, imported |-> 0, updated |-> 0,
                                  hasFile |-> TRUE, tempFile |-> FALSE],
                                 keysSeen, "none")
       IN  /\ inFlight[p].pc = "written"
           /\ store' = res.store
           /\ inFlight' = [inFlight EXCEPT ![p].pc = IF res.status = 200 THEN "done"
                                                     ELSE "failed"]
           /\ lastOp' = "import"
           /\ lastResult' = [NoResult EXCEPT !.status = res.status,
                                             !.book = inFlight[p].book]
           /\ UNCHANGED <<nImports, nEdits, extractVars, parseVars>>

RaceNext == RaceFind \/ RaceWrite \/ RacePasses

RaceSpec == Init /\ [][RaceNext]_vars

-----------------------------------------------------------------------------
(* Properties of the extractor, the grouper and the merger.                *)

RECURSIVE SumOver(_, _)
SumOver(f, S) ==
    IF S = {} THEN 0
    ELSE LET x == CHOOSE y \in S : TRUE IN f[x] + SumOver(f, S \ {x})

\* sum of the values of a map, a sequence of numbers included
SumValues(f) == SumOver(f, DOMAIN f)

TotalsOf(tasks) == [i \in 1..Len(tasks) |-> tasks[i].totalActualHours]
EntryHours(task) == [i \in 1..Len(task.timeEntries) |-> task.timeEntries[i].workHrs]

KeptHours(data) ==
    [i \in 1..Len(data) |->
        IF IsKept(data[i]) /\ data[i].WorkHrs # NULL THEN data[i].WorkHrs ELSE 0]

\* C1: the hours of all DraftTasks together are the hours of all kept rows
C1_HoursConserved == SumValues(TotalsOf(drafts)) = SumValues(KeptHours(sheet3e))

\* a batch that takes all three grouping branches and skips a row
C1_Witness ==
    /\ \E i \in 1..Len(drafts) : drafts[i].originalTfsId # NULL
    /\ \E i \in 1..Len(drafts) : drafts[i].tfsIdNotEntered
    /\ \E i \in 1..Len(drafts) : drafts[i].tfsId > 0
    /\ SumValues(TotalsOf(drafts)) > 0

\* C2: each DraftTask's total is the sum of its entries' hours and the sum
\* of its developerBreakdown
C2_DraftTotalsAgree ==
    \A i \in 1..Len(drafts) :
        /\ drafts[i].totalActualHours = SumValues(EntryHours(drafts[i]))
        /\ drafts[i].totalActualHours = SumValues(drafts[i].developerBreakdown)

\* a DraftTask that accumulated several rows of different hours
C2_Witness ==
    \E i \in 1..Len(drafts) :
        /\ Len(drafts[i].timeEntries) >= 3
        /\ \E a, b \in 1..Len(drafts[i].timeEntries) :
              drafts[i].timeEntries[a].workHrs # drafts[i].timeEntries[b].workHrs

\* the patterns whose capture is a number in 10000..99999
InRangePatterns(caps) ==
    {k \in 1..Len(caps) : caps[k] # "" /\ InRange(parseInt(caps[k]))}

\* C7: the result is the number of the first pattern, in priority order,
\* that matches with a number in 10000..99999, skipping patterns that match
\* out of range; it is 'not found' exactly when there is no such pattern
C7_FirstInRangePattern ==
    LET caps == patterns(narrative)
        ok   == InRangePatterns(caps)
    IN  /\ (extracted = NoId) <=> (ok = {})
        /\ ok # {} => extracted = parseInt(caps[Leftmost(ok)])
        /\ extracted # NoId => InRange(extracted)

\* an earlier pattern matched out of range and a later one supplied the id
C7_Witness ==
    LET caps == patterns(narrative)
    IN  /\ extracted # NoId
        /\ \E k \in 1..Len(caps) :
              /\ caps[k] # ""
              /\ ~InRange(parseInt(caps[k]))
              /\ k < Leftmost(InRangePatterns(caps))

ScoreRowsFor(id) == {i \in 1..Len(sheetScore) : sheetScore[i].ID = id}
LastOf(S) == CHOOSE i \in S : \A j \in S : j <= i
MergedWith(id) == {k \in 1..Len(merged) : merged[k].tfsId = id}
DraftIds == {drafts[i].tfsId : i \in 1..Len(drafts)}
NullIfZero(v) == IF v = 0 THEN NULL ELSE v

\* C9 as stated: a DraftTask takes estimated, quality and (non-empty) title
\* from every metadata row carrying its identifier, unmatched drafts are unchanged
C9_AsStated ==
    \A i \in 1..Len(drafts) :
        \E k \in MergedWith(drafts[i].tfsId) :
            IF ScoreRowsFor(drafts[i].tfsId) = {} THEN merged[k] = drafts[i]
            ELSE \A r \in ScoreRowsFor(drafts[i].tfsId) :
                    /\ merged[k].estimated = sheetScore[r].Estimated
                    /\ merged[k].quality = sheetScore[r].Quality
                    /\ merged[k].title = IF sheetScore[r].Title # ""
                                         THEN sheetScore[r].Title ELSE drafts[i].title

\* C9: the values are those of the last metadata row with the
\* identifier, a zero Estimated or Quality arriving as null; the title is the
\* row's when non-empty and the draft's otherwise; nothing else changes
C9_MergeOverlay ==
    \A i \in 1..Len(drafts) :
        \E k \in MergedWith(drafts[i].tfsId) :
            IF ScoreRowsFor(drafts[i].tfsId) = {} THEN merged[k] = drafts[i]
            ELSE LET row == sheetScore[LastOf(ScoreRowsFor(drafts[i].tfsId))]
                 IN  merged[k] =
                        [drafts[i] EXCEPT
                            !.estimated = NullIfZero(row.Estimated),
                            !.quality = NullIfZero(row.Quality),
                            !.title = IF row.Title # "" THEN row.Title ELSE @]

\* one draft took a title, estimate and quality from the sheet, another kept
\* its own title under a row with an empty title
C9_Witness ==
    /\ \E i \in 1..Len(drafts) : \E r \in ScoreRowsFor(drafts[i].tfsId) :
          /\ sheetScore[r].Title = ""
          /\ drafts[i].title # ""
    /\ \E i \in 1..Len(drafts) : \E k \in MergedWith(drafts[i].tfsId) :
          /\ merged[k].estimated = 80
          /\ merged[k].title = "Fix login"
          /\ drafts[i].title # "Fix login"

IsStandalone(task) ==
    /\ task.timeEntries = <<>>
    /\ task.totalActualHours = 0
    /\ task.developerBreakdown = <<>>
    /\ task.developerBreakdownByDate = <<>>

UnmatchedScoreRows ==
    {i \in 1..Len(sheetScore) : sheetScore[i].ID # NoId /\ sheetScore[i].ID \notin DraftIds}

\* C10 as stated: every metadata row with an identifier is one task of the
\* output, the draft's or a standalone one of its own
C10_AsStated ==
    /\ \A i \in 1..Len(sheetScore) :
          sheetScore[i].ID # NoId => Cardinality(MergedWith(sheetScore[i].ID)) = 1
    /\ Len(merged) = Len(drafts) + Cardinality(UnmatchedScoreRows)
    /\ \A i \in UnmatchedScoreRows : \A k \in MergedWith(sheetScore[i].ID) :
          IsStandalone(merged[k])

\* C10: every distinct identifier of the metadata sheet is exactly
\* one task of the output: the draft with that identifier, or else a
\* standalone task with no entries, zero hours and empty breakdowns that
\* carries the values of the last row with the identifier; rows without an
\* identifier add nothing
C10_EveryScoreIdOnce ==
    /\ \A i \in 1..Len(sheetScore) :
          sheetScore[i].ID # NoId => Cardinality(MergedWith(sheetScore[i].ID)) = 1
    /\ Len(merged) = Len(drafts) + Cardinality({sheetScore[i].ID : i \in UnmatchedScoreRows})
    /\ MergedWith(NoId) = {}
    /\ \A i \in UnmatchedScoreRows : \A k \in MergedWith(sheetScore[i].ID) :
          LET row == sheetScore[LastOf(ScoreRowsFor(sheetScore[i].ID))]
          IN  /\ IsStandalone(merged[k])
              /\ merged[k].estimated = NullIfZero(row.Estimated)
              /\ merged[k].quality = NullIfZero(row.Quality)
              /\ merged[k].title = row.Title

\* one row consumed by a draft, one row standing alone, one row without id
C10_Witness ==
    /\ \E i \in 1..Len(sheetScore) : sheetScore[i].ID \in DraftIds
    /\ \E i \in UnmatchedScoreRows : sheetScore[i].Estimated = 80
    /\ Len(merged) = Len(drafts) + 1

-----------------------------------------------------------------------------
(* Properties of the engines and of the import                             *)

\* C3: after calculate-estimates (grouped by developer or by matter) and
\* after the automatic pass that ends an import, every task the pass
\* updated has an estimate of at least the ceiling of its own total hours
C3_EstimateFloor ==
    lastOp \in {"calculate-estimates", "import"} =>
        \A id \in lastResult.ids :
            /\ id \in DOMAIN store
            /\ store[id].estimated # NULL
            /\ store[id].estimated >= Ceil(store[id].totalActualHours)

\* a task of 12.4 hours, alone in its group after its estimate was cleared,
\* was given 13 where the group estimate is 12
C3_Witness ==
    /\ lastOp = "calculate-estimates"
    /\ \E id \in lastResult.ids :
          /\ store[id].totalActualHours = 124
          /\ store[id].estimated = 130
          /\ GroupStats(<<124>>).estimate = 120

\* C4 as stated: right after fix-low-estimates every non-null estimate is
\* at least the ceiling of the task's total hours
C4_AsStated ==
    lastOp = "fix-low-estimates" =>
        \A id \in DOMAIN store :
            store[id].estimated # NULL =>
                store[id].estimated >= Ceil(store[id].totalActualHours)

\* C4: right after fix-low-estimates every non-null estimate is at least
\* the task's total hours, and the estimates the pass changed are exactly
\* the ceiling of the total hours
C4_FixRaisesToTotal ==
    lastOp = "fix-low-estimates" =>
        \A id \in DOMAIN store :
            /\ store[id].estimated # NULL =>
                  store[id].estimated >= store[id].totalActualHours
            /\ id \in lastResult.ids =>
                  store[id].estimated = Ceil(store[id].totalActualHours)

\* the pass ran over an estimate of 12.7 edited onto a task of 12.4 hours
\* and over an estimate of 8 that came with the metadata of a task of 4
C4_Witness ==
    /\ lastOp = "fix-low-estimates"
    /\ \E id \in DOMAIN store, other \in DOMAIN store :
          /\ store[id].estimated = 127 /\ store[id].totalActualHours = 124
          /\ store[other].estimated = 80 /\ store[other].totalActualHours = 40

\* C5: a fix-low-estimates right after another changes nothing and reports
\* fixed = 0, and every run leaves alone each task whose estimate is null
\* or not below its total hours
C5_FixIdempotent ==
    [][/\ (lastOp = "fix-low-estimates" /\ lastOp' = "fix-low-estimates") =>
              (store' = store /\ lastResult'.fixed = 0)
       /\ lastOp' = "fix-low-estimates" =>
              \A id \in DOMAIN store :
                  (\/ store[id].estimated = NULL
                   \/ store[id].estimated >= store[id].totalActualHours) =>
                      (id \in DOMAIN store' /\ store'[id] = store[id])]_vars

\* the second of two runs in a row, over a task the first one raised
C5_Witness ==
    /\ lastOp = "fix-low-estimates"
    /\ lastResult.repeated
    /\ lastResult.fixed = 0
    /\ \E id \in DOMAIN store :
          store[id].estimated = 130 /\ store[id].totalActualHours = 125

\* the score of the table for (actual - estimated) / estimated, in percent
ScoreByVariance(actual, estimated) ==
    LET v100 == 100 * (actual - estimated)
    IN  IF v100 <= (0 - 25) * estimated THEN 5
        ELSE IF v100 <= (0 - 10) * estimated THEN 4
        ELSE IF v100 <= 25 * estimated THEN 3
        ELSE 2

\* C6: calculate-quality gives every task with hours, a positive estimate
\* and no quality the score of the variance table, with the boundaries
\* -25%, -10% and +25% inclusive (10 estimated: 7.5 -> 5, 9.0 -> 4,
\* 12.5 -> 3, 12.6 -> 2), and never the score 1
C6_QualityByVariance ==
    [][lastOp' = "calculate-quality" =>
              \A id \in DOMAIN store :
                  (/\ store[id].totalActualHours > 0
                   /\ store[id].estimated # NULL
                   /\ store[id].estimated > 0
                   /\ store[id].quality = NULL) =>
                      /\ id \in lastResult'.ids
                      /\ store'[id].quality =
                            ScoreByVariance(store[id].totalActualHours, store[id].estimated)
                      /\ store'[id].quality # 1
                      /\ (store[id].estimated = 100 /\ store[id].totalActualHours = 75)
                            => store'[id].quality = 5
                      /\ (store[id].estimated = 100 /\ store[id].totalActualHours = 90)
                            => store'[id].quality = 4
                      /\ (store[id].estimated = 100 /\ store[id].totalActualHours = 125)
                            => store'[id].quality = 3
                      /\ (store[id].estimated = 100 /\ store[id].totalActualHours = 126)
                            => store'[id].quality = 2]_vars

\* one pass scored a task exactly on the +25% boundary and one just above it
C6_Witness ==
    /\ lastOp = "calculate-quality"
    /\ \E id \in lastResult.ids, other \in lastResult.ids :
          /\ store[id].estimated = 100 /\ store[id].totalActualHours = 125
          /\ store[id].quality = 3
          /\ store[other].estimated = 100 /\ store[other].totalActualHours = 126
          /\ store[other].quality = 2

\* the last request imported book into an empty collection
ImportedAlone(book) ==
    lastOp = "import" /\ lastResult.wasEmpty /\ lastResult.book = book

\* C8 as stated: the row "TFS Task 100 - fix" of 4 hours by A B, imported
\* with the metadata row (100, Estimated 8, no Quality) into an empty
\* collection, gives a task 100 of 4 hours, estimate 8, no quality and the
\* breakdown {"A B": 4}
C8_AsStated ==
    ImportedAlone(BookTask100) =>
        /\ 100 \in DOMAIN store
        /\ store[100].totalActualHours = 40
        /\ store[100].estimated = 80
        /\ store[100].quality = NULL
        /\ DOMAIN store[100].developerBreakdown = {"A B"}
        /\ store[100].developerBreakdown["A B"] = 40

\* C8: 100 is not a five-digit identifier, so that import gives a
\* placeholder task -1 with the 4 hours (estimate 4, quality 3) next to a
\* task 100 of no hours with estimate 8; with 12345 in the narrative and in
\* the metadata row it gives the one task 12345 of 4 hours, estimate 8,
\* breakdown {"A B": 4}, which the quality pass of the import scores 5
C8_EndToEnd ==
    /\ ImportedAlone(BookTask100) =>
          /\ DOMAIN store = {0 - 1, 100}
          /\ store[100].totalActualHours = 0
          /\ store[100].estimated = 80
          /\ store[100].quality = NULL
          /\ DOMAIN store[100].developerBreakdown = {}
          /\ store[0 - 1].totalActualHours = 40
          /\ store[0 - 1].estimated = 40
          /\ store[0 - 1].quality = 3
          /\ DOMAIN store[0 - 1].developerBreakdown = {"A B"}
          /\ store[0 - 1].developerBreakdown["A B"] = 40
    /\ ImportedAlone(BookTask12345) =>
          /\ DOMAIN store = {12345}
          /\ store[12345].totalActualHours = 40
          /\ store[12345].estimated = 80
          /\ store[12345].quality = 5
          /\ DOMAIN store[12345].developerBreakdown = {"A B"}
          /\ store[12345].developerBreakdown["A B"] = 40

\* the workbook of the example was imported into an empty collection
C8_Witness ==
    /\ ImportedAlone(BookTask100)
    /\ (0 - 1) \in DOMAIN store
    /\ includes(store[0 - 1].title, MARKER)

-----------------------------------------------------------------------------
(* Properties of the import handler and of the identifier change.          *)

\* the merged tasks of the workbook of the last import
BatchOf(book) == getMergedData(parseSheet(book, "3e"), parseSheet(book, "scorebyTFS"))

BatchIds(batch) == {batch[i].tfsId : i \in 1..Len(batch)}

NameOf(entry) == entry.firstName \o " " \o entry.lastName

\* the hours of the entries of one developer, on one day or ("*") on any day
HoursOf(entries, name, day) ==
    SumValues([i \in 1..Len(entries) |->
                  IF NameOf(entries[i]) = name /\ day \in {"*", entries[i].workDateOnly}
                  THEN entries[i].workHrs ELSE 0])

\* doc holds exactly these entries, and totals that are their sums
HoldsExactly(doc, entries) ==
    LET names == {NameOf(entries[i]) : i \in 1..Len(entries)}
    IN  /\ doc.timeEntries = entries
        /\ doc.totalActualHours = SumValues([i \in 1..Len(entries) |-> entries[i].workHrs])
        /\ DOMAIN doc.developerBreakdown = names
        /\ \A n \in names : doc.developerBreakdown[n] = HoursOf(entries, n, "*")
        /\ DOMAIN doc.developerBreakdownByDate = names
        /\ \A n \in names :
              /\ DOMAIN doc.developerBreakdownByDate[n] =
                    {entries[i].workDateOnly : i \in {j \in 1..Len(entries) : NameOf(entries[j]) = n}}
              /\ \A d \in DOMAIN doc.developerBreakdownByDate[n] :
                    doc.developerBreakdownByDate[n][d] = HoursOf(entries, n, d)

\* the collection base has become coll by an import of batch that reported
\* the counts of res
UpsertedFrom(base, coll, batch, res) ==
    /\ DOMAIN coll = DOMAIN base \cup BatchIds(batch)
    /\ \A i \in 1..Len(batch) : HoldsExactly(coll[batch[i].tfsId], batch[i].timeEntries)
    /\ res.imported = Cardinality(BatchIds(batch) \ DOMAIN base)
    /\ res.updated = Cardinality(BatchIds(batch) \cap DOMAIN base)
    /\ res.imported + res.updated = Len(batch)

\* an import step that answers 200
ImportSucceeds == lastOp' = "import" /\ nImports' = nImports + 1 /\ lastResult'.status = 200

C12_AsStated ==
    [][ImportSucceeds /\ ~lastResult'.wasEmpty =>
          LET batch == BatchOf(lastResult'.book)
          IN  \A i \in 1..Len(batch) :
                  (batch[i].tfsId \in DOMAIN store /\ batch[i].estimated # NULL) =>
                      /\ batch[i].title # "" => store'[batch[i].tfsId].title = batch[i].title
                      /\ store'[batch[i].tfsId].estimated = batch[i].estimated
                      /\ batch[i].quality # NULL =>
                            store'[batch[i].tfsId].quality = batch[i].quality]_vars

\* how many times sub occurs in s
Occurrences(s, sub) ==
    Cardinality({i \in 1..(Len(s) - Len(sub) + 1) : SubSeq(s, i, i + Len(sub) - 1) = sub})

\* the merged tasks of the last import that are flagged ID-not-entered
FlaggedIds(batch) == {batch[i].tfsId : i \in {j \in 1..Len(batch) : batch[j].tfsIdNotEntered}}

\* C13: no stored title ever holds the marker "[TFS ID Not Entered]" more
\* than once, whatever workbooks were imported and however often; and right
\* after an import that answers 200, every task of its batch flagged
\* ID-not-entered holds it exactly once
C13_MarkerOnce ==
    /\ \A id \in DOMAIN store : Occurrences(store[id].title, MARKER) <= 1
    /\ (lastOp = "import" /\ lastResult.status = 200) =>
          \A id \in FlaggedIds(BatchOf(lastResult.book)) :
              Occurrences(store[id].title, MARKER) = 1

\* the workbook with a row that names no identifier has been imported over
\* its own earlier import
C13_Witness ==
    /\ lastOp = "import" /\ lastResult.status = 200
    /\ lastResult.repeated /\ ~lastResult.wasEmpty
    /\ lastResult.book = BookTask100
    /\ lastResult.updated = 2
    /\ FlaggedIds(BatchOf(lastResult.book)) = {0 - 1}
    /\ Occurrences(store[0 - 1].title, MARKER) = 1

-----------------------------------------------------------------------------
(* Properties of the grouper under reordering and filtering.               *)

\* the rows of data with those at positions i and j exchanged
Swapped(data, i, j) ==
    [k \in 1..Len(data) |-> IF k = i THEN data[j] ELSE IF k = j THEN data[i] ELSE data[k]]

\* a sequence as a multiset: each element with the number of its positions
BagOfSeq(s) ==
    [e \in {s[i] : i \in 1..Len(s)} |-> Cardinality({i \in 1..Len(s) : s[i] = e})]

\* one DraftTask as the claim compares it
TaskFacts(task) ==
    [tfsId |-> task.tfsId, title |-> task.title, entries |-> BagOfSeq(task.timeEntries),
     totalActualHours |-> task.totalActualHours,
     developerBreakdown |-> task.developerBreakdown,
     developerBreakdownByDate |-> task.developerBreakdownByDate]

TaskFactsOf(tasks) == {TaskFacts(tasks[i]) : i \in 1..Len(tasks)}

\* C14 as stated: exchanging any two rows of the sheet leaves the set of
\* DraftTasks the same in identifier, title, entry multiset, total and
\* breakdowns
C14_AsStated ==
    \A i, j \in 1..Len(sheet3e) :
        TaskFactsOf(parseTimesheetData(Swapped(sheet3e, i, j))) = TaskFactsOf(drafts)

-----------------------------------------------------------------------------
(* Properties of the estimate preview.                                     *)

\* C15 as stated: a preview step leaves the collection as it was, and the
\* groups it reports, each with its task count, median, MAD and estimate,
\* are the groups calculate-estimates computes on that collection under the
\* same groupBy
C15_AsStated ==
    [][lastOp' = "estimate-preview" =>
          /\ store' = store
          /\ \E keysSeen \in BOOLEAN :
                LET calc == calculateBellCurveEstimates(store, lastResult'.groupBy, keysSeen)
                IN  ~calc.threw /\ calc.groupStats = lastResult'.groupStats]_vars

\* the same letter in either case, or the same character
SameIgnoringCase(a, b) ==
    a = b \/ \E k \in 1..26 : {a, b} = {Ch(UpperChars, k), Ch(LowerChars, k)}

\* word occurs in s as a substring, letters compared without regard to case
ContainsIgnoringCase(s, word) ==
    \E i \in 1..(Len(s) - Len(word) + 1) :
        \A k \in 1..Len(word) : SameIgnoringCase(Ch(s, i + k - 1), Ch(word, k))

\* for each activity of the row space, whether it holds one of the five words
HoldsSkipWord ==
    [a \in SheetActivities |->
        \E word \in {"PTO/Vacation", "Holiday", "Death in Family", "Leave Without Pay",
                     "Administrative Shutdown"} : ContainsIgnoringCase(a, word)]

\* the rows the filter is to keep
ToBeKept(row) ==
    /\ ~HoldsSkipWord[row.ActivityCodeDesc]
    /\ ~(row.FirstName = "Miriah" /\ row.LastName = "Pooler")

\* entry is the time entry of row
IsEntryOf(entry, row) ==
    /\ entry.timekeeperNumber = row.TimekeeperNumber
    /\ entry.firstName = row.FirstName /\ entry.lastName = row.LastName
    /\ entry.workDateOnly = row.WorkDate
    /\ entry.workHrs = (IF row.WorkHrs = NULL THEN 0 ELSE row.WorkHrs)
    /\ entry.narrative = row.TimecardNarrative
    /\ entry.activityCodeDesc = row.ActivityCodeDesc

\* how many entries of all the DraftTasks together are the entry of row
EntriesFor(tasks, row) ==
    SumValues([i \in 1..Len(tasks) |->
                  Cardinality({k \in 1..Len(tasks[i].timeEntries) :
                                  IsEntryOf(tasks[i].timeEntries[k], row)})])

\* C16: the DraftTasks hold one entry for every row whose ActivityCodeDesc
\* contains none of the five skip words as a case-insensitive substring and
\* whose developer is not Miriah Pooler, a row with an empty ActivityCodeDesc
\* among them, and no entry for any other row
C16_KeptIffNotSkipped ==
    \A i \in 1..Len(sheet3e) :
        EntriesFor(drafts, sheet3e[i]) =
            Cardinality({j \in 1..Len(sheet3e) :
                            sheet3e[j] = sheet3e[i] /\ ToBeKept(sheet3e[j])})

\* a sheet with a row skipped for its activity in another case, a row of the
\* named contributor, a row without activity that is kept, and a plain row
C16_Witness ==
    /\ \E i \in 1..Len(sheet3e) :
          /\ sheet3e[i].ActivityCodeDesc = "Paid HOLIDAY leave"
          /\ EntriesFor(drafts, sheet3e[i]) = 0
    /\ \E i \in 1..Len(sheet3e) :
          /\ sheet3e[i].ActivityCodeDesc = "pto/vacation"
          /\ EntriesFor(drafts, sheet3e[i]) = 0
    /\ \E i \in 1..Len(sheet3e) :
          /\ sheet3e[i].FirstName = "Miriah"
          /\ EntriesFor(drafts, sheet3e[i]) = 0
    /\ \E i \in 1..Len(sheet3e) :
          /\ sheet3e[i].ActivityCodeDesc = ""
          /\ EntriesFor(drafts, sheet3e[i]) = 1

\* the rows of a sheet that lack a WorkDate
MalformedRows(data) == {i \in 1..Len(data) : data[i].WorkDate = ""}

\* an import of a readable workbook with a malformed row, with the database
\* answering every call
ImportedMalformed ==
    /\ lastOp = "import"
    /\ lastResult.source = "upload" /\ lastResult.fault = "none"
    /\ MalformedRows(parseSheet(lastResult.book, "3e")) # {}

\* C17 as stated: such an import answers 200 and the collection holds the
\* tasks built from the well-formed rows, counted in imported and updated
C17_AsStated ==
    ImportedMalformed =>
        LET good  == SelectSeq(parseSheet(lastResult.book, "3e"), LAMBDA row : row.WorkDate # "")
            batch == getMergedData(good, parseSheet(lastResult.book, "scorebyTFS"))
        IN  /\ lastResult.status = 200
            /\ BatchIds(batch) \subseteq DOMAIN store
            /\ lastResult.imported + lastResult.updated = Len(batch)

\* a PUT step that asks, without mergeWithExisting, for the identifier of
\* another stored task
RenameCollides ==
    /\ lastOp' = "put" /\ nEdits' = nEdits + 1
    /\ lastResult'.edited \in DOMAIN store
    /\ lastResult'.target \in DOMAIN store \ {lastResult'.edited}
    /\ ~lastResult'.merge

\* C18: a PUT that changes a task's identifier to one that another stored
\* task has, without mergeWithExisting, answers 400 and leaves the
\* collection as it was: the edited task and the other one are both still
\* stored, with every field as before
C18_CollisionRejected ==
    [][RenameCollides => (lastResult'.status = 400 /\ store' = store)]_vars

\* a rename onto the identifier of another task has been refused while the
\* two tasks are stored with different hours
C18_Witness ==
    /\ lastOp = "put" /\ lastResult.status = 400 /\ ~lastResult.merge
    /\ {lastResult.edited, lastResult.target} \subseteq DOMAIN store
    /\ lastResult.edited # lastResult.target
    /\ store[lastResult.edited].totalActualHours # store[lastResult.target].totalActualHours

\* C19: whenever the import handler has answered a request that uploaded a
\* file, the uploaded file is no longer on disk, whether the handler
\* answered 200, failed to read the workbook, failed on a write in the
\* middle of the batch, or failed in the automatic passes after the batch
C19_TempFileRemoved ==
    (lastOp = "import" /\ lastResult.source = "upload") => ~lastResult.tempFile

\* an upload that failed in the middle of its batch, after one task had
\* been saved, and whose file is gone
C19_Witness ==
    /\ lastOp = "import" /\ lastResult.source = "upload"
    /\ lastResult.status = 500 /\ lastResult.fault = "none"
    /\ lastResult.book = BookMalformed /\ lastResult.wasEmpty
    /\ DOMAIN store = {67890}
    /\ ~lastResult.tempFile

\* C20 as stated: an upload of a readable workbook that lacks the sheet "3e"
\* or the sheet "scorebyTFS" is not answered as a successful import
C20_AsStated ==
    (/\ lastOp = "import"
     /\ lastResult.source = "upload" /\ lastResult.fault = "none"
     /\ lastResult.book.sheets # {"3e", "scorebyTFS"})
        => lastResult.status # 200

-----------------------------------------------------------------------------
(* Properties of the partition made by the grouper.                        *)

\* the positions of the rows the filter keeps
KeptAt(data) == {i \in 1..Len(data) : ToBeKept(data[i])}

IdAt(data, i) == TfsIdOfNarrative[data[i].TimecardNarrative]

DevAt(data, i) == data[i].FirstName \o " " \o data[i].LastName

\* the developers whose kept rows resolve to id
DevsOfId(data, id) == {DevAt(data, j) : j \in {k \in KeptAt(data) : IdAt(data, k) = id}}

\* rows i and j belong together: the same recovered identifier, and either
\* one developer for it in the whole batch or the same developer on both
Together(data, i, j) ==
    \/ i = j
    \/ /\ IdAt(data, i) # NoId
       /\ IdAt(data, i) = IdAt(data, j)
       /\ \/ Cardinality(DevsOfId(data, IdAt(data, i))) = 1
          \/ DevAt(data, i) = DevAt(data, j)

ClassAt(data, i) == {j \in KeptAt(data) : Together(data, i, j)}

\* the first row of every class, in sheet order: the order in which the
\* DraftTasks come out
ClassFirsts(data) ==
    SeqOfSet({i \in KeptAt(data) : \A j \in ClassAt(data, i) : i <= j})

\* task holds the entries of exactly the rows of the class of row i, in
\* sheet order, under the identifier that class is to have
IsTaskOfClass(task, data, i) ==
    LET rows == SeqOfSet(ClassAt(data, i))
        id   == IdAt(data, i)
    IN  /\ Len(task.timeEntries) = Len(rows)
        /\ \A n \in 1..Len(rows) : IsEntryOf(task.timeEntries[n], data[rows[n]])
        /\ id = NoId => (task.tfsId < 0 /\ Len(rows) = 1)
        /\ (id # NoId /\ Cardinality(DevsOfId(data, id)) = 1) => task.tfsId = id
        /\ (id # NoId /\ Cardinality(DevsOfId(data, id)) > 1) =>
              (task.tfsId < 0 /\ task.originalTfsId = id)

-----------------------------------------------------------------------------
(* Properties of the estimation and quality engines.                       *)

\* the k-th smallest of the values of vals
KthSmallest(vals, k) ==
    CHOOSE x \in {vals[i] : i \in 1..Len(vals)} :
        /\ Cardinality({i \in 1..Len(vals) : vals[i] < x}) < k
        /\ Cardinality({i \in 1..Len(vals) : vals[i] <= x}) >= k

\* twice the standard median of vals
TwiceMedian(vals) ==
    IF Len(vals) % 2 = 1 THEN 2 * KthSmallest(vals, (Len(vals) + 1) \div 2)
    ELSE KthSmallest(vals, Len(vals) \div 2) + KthSmallest(vals, Len(vals) \div 2 + 1)

\* R(m + 0.5 * d) in hours, for hours given in tenths; the arithmetic is in
\* units of 1/80 hour, in which m, d and m + 0.5 * d are whole numbers
ExpectedEstimate(hours) ==
    LET vals == [i \in 1..Len(hours) |-> 8 * hours[i]]
        m    == TwiceMedian(vals) \div 2
        devs == [i \in 1..Len(vals) |-> IF vals[i] >= m THEN vals[i] - m ELSE m - vals[i]]
        d    == TwiceMedian(devs) \div 2
        raw  == m + d \div 2
    IN  IF raw >= 100 * 80
        THEN 10 * (CHOOSE n \in 10..1000 : 800 * n >= raw /\ 800 * (n - 1) < raw)
        ELSE LET near == CHOOSE n \in 0..100 : 80 * n <= raw + 40 /\ raw + 40 < 80 * (n + 1)
             IN  IF near = 0 THEN 1 ELSE near

\* the tasks calculate-estimates put into the group named key: under
\* "Unknown" all the tasks it selected, else those of that developer
GroupMembers(coll, key) ==
    SeqOfSet({id \in DOMAIN coll :
                 /\ coll[id].totalActualHours > 0 /\ coll[id].estimated = NULL
                 /\ key = "Unknown" \/ key \in DOMAIN coll[id].developerBreakdown})

\* C22: every group reported by calculate-estimates has the estimate
\* R(m + 0.5 * d) of its tasks' hours, m their standard median, d the median
\* of their distances from m, R rounding up to a multiple of 10 from 100 on
\* and to the nearest integer below, 0 becoming 1; for a group of one task
\* d = 0 and the estimate is R of the task's hours
C22_GroupEstimate ==
    [][(lastOp' = "calculate-estimates" /\ lastResult'.status = 200) =>
          \A g \in lastResult'.groupStats :
              LET ids == GroupMembers(store, g.group)
                  hrs == [i \in 1..Len(ids) |-> store[ids[i]].totalActualHours]
              IN  /\ g.taskCount = Len(ids)
                  /\ g.estimate = Tenth * ExpectedEstimate(hrs)
                  /\ Len(ids) = 1 => g.mad = 0]_vars

\* a group of two tasks, of 99.5 and 100.4 hours, estimated at 110
C22_Witness ==
    /\ lastOp = "calculate-estimates" /\ lastResult.status = 200
    /\ \E g \in lastResult.groupStats :
          g.taskCount = 2 /\ g.median = 9995 /\ g.mad > 0 /\ g.estimate = 110 * Tenth

\* the tasks calculate-estimates is to work on
Eligible(coll) ==
    {id \in DOMAIN coll : coll[id].totalActualHours > 0 /\ coll[id].estimated = NULL}

\* a calculate-estimates step that answers 200
EstimatesSucceed == lastOp' = "calculate-estimates" /\ lastResult'.status = 200

\* C23: a calculate-estimates step that answers 200 leaves every task that
\* has an estimate or no hours exactly as it was, changes nothing but the
\* estimate of the others, reports as updated the number of tasks that had
\* hours and no estimate, and, coming right after another such step,
\* updates 0 tasks and changes nothing
C23_OnlyEligible ==
    [][EstimatesSucceed =>
          /\ DOMAIN store' = DOMAIN store
          /\ \A id \in DOMAIN store \ Eligible(store) : store'[id] = store[id]
          /\ \A id \in Eligible(store) :
                /\ store'[id].estimated # NULL
                /\ store'[id] = [store[id] EXCEPT !.estimated = store'[id].estimated]
          /\ lastResult'.updated = Cardinality(Eligible(store))
          /\ (lastOp = "calculate-estimates" /\ lastResult.status = 200) =>
                (lastResult'.updated = 0 /\ store' = store)]_vars

\* a second run right after a first one that estimated one task of three,
\* next to a task without hours and a task that had its estimate already
C23_Witness ==
    /\ lastOp = "calculate-estimates" /\ lastResult.status = 200
    /\ lastResult.repeated /\ lastResult.updated = 0
    /\ Cardinality(DOMAIN store) = 3
    /\ \E id \in DOMAIN store :
          store[id].totalActualHours = 0 /\ store[id].estimated = NULL
    /\ \E a, b \in DOMAIN store :
          /\ a # b /\ store[a].estimated # NULL /\ store[b].estimated # NULL
          /\ store[a].estimated # store[b].estimated

\* the MatterNumber cells of the kept rows that the workbooks hold for a task
ImportedMatters(id) ==
    UNION {{book.rows[i].MatterNumber :
               i \in {j \in 1..Len(book.rows) :
                         TfsIdOfNarrative[book.rows[j].TimecardNarrative] = id}} :
           book \in Workbooks}

\* the group a task belongs to by the matter number of its rows
MatterGroup(id) ==
    IF ImportedMatters(id) \in {{}, {""}} THEN "Unknown"
    ELSE CHOOSE m \in ImportedMatters(id) : m # ""

\* C24: after calculate-estimates grouped by matter, the groups are those of
\* the matter numbers of the rows of the tasks estimated, so that tasks with
\* different matter numbers are in different groups
C24_AsStated ==
    (lastOp = "calculate-estimates" /\ lastResult.status = 200
        /\ lastResult.groupBy = "matter") =>
       {g.group : g \in lastResult.groupStats} = {MatterGroup(id) : id \in lastResult.ids}

-----------------------------------------------------------------------------
(* Properties of the defaults for Miriah Pooler.                           *)

\* doc has a time entry of Miriah Pooler
HasContributorEntry(doc) ==
    \E i \in 1..Len(doc.timeEntries) :
        doc.timeEntries[i].firstName = "Miriah" /\ doc.timeEntries[i].lastName = "Pooler"

\* what the stored task id had before the step, NULL for a task not stored
QualityBefore(id) == IF id \in DOMAIN store THEN store[id].quality ELSE NULL
EstimateBefore(id) == IF id \in DOMAIN store THEN store[id].estimated ELSE NULL

\* C25: after an import that answers 200, every stored task with an entry
\* of Miriah Pooler has quality 4 if it had none, and its own hours for an
\* estimate if it had none; a quality or estimate it had is kept
C25_AsStated ==
    [][(lastOp' = "import" /\ lastResult'.status = 200) =>
          \A id \in DOMAIN store' :
              HasContributorEntry(store'[id]) =>
                 /\ store'[id].quality =
                       IF QualityBefore(id) = NULL THEN 4 ELSE QualityBefore(id)
                 /\ store'[id].estimated =
                       IF EstimateBefore(id) = NULL THEN store'[id].totalActualHours
                       ELSE EstimateBefore(id)]_vars

-----------------------------------------------------------------------------
(* Properties of imports running at the same time.                         *)

\* the identifiers that the batches of both requests hold
SharedIds ==
    {id \in BatchIds(RaceBatch[inFlight[1].book]) : id \in BatchIds(RaceBatch[inFlight[2].book])}

\* the task that the batch of request p holds for id
RaceTask(p, id) ==
    LET batch == RaceBatch[inFlight[p].book]
    IN  batch[CHOOSE i \in 1..Len(batch) : batch[i].tfsId = id]

\* C26: when two imports with a task in common have both ended, both have
\* completed, and each such task is stored with exactly the time entries and
\* totals of one of the two batches
C26_AsStated ==
    (/\ DOMAIN inFlight = Requests
     /\ \A p \in Requests : inFlight[p].pc \in {"done", "failed"}
     /\ SharedIds # {}) =>
       /\ \A p \in Requests : inFlight[p].pc = "done"
       /\ \A id \in SharedIds :
             /\ id \in DOMAIN store
             /\ \E p \in Requests : HoldsExactly(store[id], RaceTask(p, id).timeEntries)

-----------------------------------------------------------------------------
(* Properties of the totals of stored tasks.                               *)

\* C27: every stored task's totalActualHours is the sum of the workHrs of
\* its time entries and the sum of its developerBreakdown values
C27_AsStated ==
    \A id \in DOMAIN store :
        /\ store[id].totalActualHours = SumValues(EntryHours(store[id]))
        /\ store[id].totalActualHours = SumValues(store[id].developerBreakdown)

\* C28: after an import that answers 200, every stored task with hours has
\* an estimate and a quality score
C28_ImportScoresAll ==
    (lastOp = "import" /\ lastResult.status = 200) =>
       \A id \in DOMAIN store :
           store[id].totalActualHours > 0 =>
              (store[id].estimated # NULL /\ store[id].quality # NULL)

\* an import into a store that held a task with hours and no estimate, not
\* among the tasks of the workbook, which the import has estimated
C28_Witness ==
    /\ lastOp = "import" /\ lastResult.status = 200 /\ ~lastResult.wasEmpty
    /\ \E id \in lastResult.ids \ BatchIds(BatchOf(lastResult.book)) :
          /\ store[id].totalActualHours > 0
          /\ store[id].estimated # NULL /\ store[id].quality # NULL
    /\ lastResult.qualityIds # {}

\* C29: calculate-estimates gives each task it estimates an estimate of at
\* least the task's hours, and calculate-quality gives each task it scores
\* whose estimate is at least its hours the quality 3, 4 or 5, never 2
C29_EngineNeverTwo ==
    [][/\ lastOp' = "calculate-estimates" =>
             \A id \in lastResult'.ids :
                 store'[id].estimated >= store'[id].totalActualHours
       /\ lastOp' = "calculate-quality" =>
             \A id \in lastResult'.ids :
                 store[id].estimated >= store[id].totalActualHours =>
                    store'[id].quality \in {3, 4, 5}]_vars

\* a quality run that has scored a task estimated by the engine, not by
\* hand (entered estimates are 10 hours), next to a task with an entered
\* estimate below its hours, scored 2
C29_Witness ==
    /\ lastOp = "calculate-quality"
    /\ \E a, b \in lastResult.ids :
          /\ store[a].estimated # 100
          /\ store[a].estimated >= store[a].totalActualHours
          /\ store[a].quality \in {3, 4, 5}
          /\ store[b].estimated = 100 /\ store[b].totalActualHours = 126
          /\ store[b].quality = 2

-----------------------------------------------------------------------------
(* Properties of generated identifiers across imports.                     *)

\* the generated tasks of a workbook's batch
GeneratedTasks(book) ==
    {BatchOf(book)[i] : i \in {j \in 1..Len(BatchOf(book)) : BatchOf(book)[j].tfsId < 0}}

====
